---- MODULE Spec2Model ----
(***************************************************************************)
(* MegaCart API (src/main.py) with its store helpers                       *)
(* (src/megacart_backend/database/mongodb.py).                             *)
(*                                                                         *)
(* A Python str is a sequence of one-character strings; None is the record *)
(* None; a BSON ObjectId is the pair <<"ObjectId", its 24 hex digits>>.    *)
(* The users and products collections of the store, FALLBACK_USERS and the *)
(* DB_CONNECTED flag are the state.  register_user is modelled at the      *)
(* granularity of its awaited store calls (find_one, insert_one), and so   *)
(* are the read-only handlers: each awaited attempt of execute_with_retry  *)
(* is a step, and other requests and the seed scripts run between them.    *)
(* The users collection is also written by the test scripts                *)
(* simple_mongo_test.py and debug_auth.py and by register of               *)
(* routers/auth.py, all of src/megacart_backend.                           *)
(* The clock counts days and is read where the code reads utcnow().       *)
(***************************************************************************)
EXTENDS Integers, Sequences, FiniteSets, TLC

None == [type |-> "None"]

(***************************************************************************)
(* Python str helpers.                                                     *)
(***************************************************************************)
\* the characters str.strip() removes: those of the code points 0..255
\* (the alphabet of the model) for which str.isspace() is true: space, \t, \n,
\* \x0b, \f, \r, \x1c..\x1f, \x85 and \xa0
Whitespace ==
    {"\t", "\n", "", "\f", "\r", "", "", "", "", " ", "", " "}

\* the letters str.lower() changes, among the code points 0..255: A..Z and the
\* upper-case letters \xc0..\xde without the sign \xd7
UpperChars == <<"A","B","C","D","E","F","G","H","I","J","K","L","M",
                "N","O","P","Q","R","S","T","U","V","W","X","Y","Z",
                "À","Á","Â","Ã","Ä","Å","Æ","Ç","È","É","Ê","Ë","Ì","Í","Î","Ï","Ð","Ñ","Ò","Ó","Ô","Õ","Ö","Ø","Ù","Ú","Û","Ü","Ý","Þ">>

LowerChars == <<"a","b","c","d","e","f","g","h","i","j","k","l","m",
                "n","o","p","q","r","s","t","u","v","w","x","y","z",
                "à","á","â","ã","ä","å","æ","ç","è","é","ê","ë","ì","í","î","ï","ð","ñ","ò","ó","ô","õ","ö","ø","ù","ú","û","ü","ý","þ">>

DigitChars == <<"0","1","2","3","4","5","6","7","8","9">>

HexChars == <<"0","1","2","3","4","5","6","7","8","9","a","b","c","d","e","f">>

\* position of character c in the table t, 0 when absent
IndexOf(t, c) ==
    IF \E i \in 1..Len(t) : t[i] = c
    THEN CHOOSE i \in 1..Len(t) : t[i] = c
    ELSE 0

UpperSet == {UpperChars[i] : i \in 1..Len(UpperChars)}

ToLower == [c \in UpperSet |-> LowerChars[IndexOf(UpperChars, c)]]

\* str.lower() on one character
LowerChar(c) == IF c \in UpperSet THEN ToLower[c] ELSE c

\* str.lower()
lower(s) == [i \in 1..Len(s) |-> LowerChar(s[i])]

RECURSIVE lstrip(_)
lstrip(s) ==
    IF s = <<>> THEN s
    ELSE IF Head(s) \in Whitespace THEN lstrip(Tail(s)) ELSE s

RECURSIVE rstrip(_)
rstrip(s) ==
    IF s = <<>> THEN s
    ELSE IF s[Len(s)] \in Whitespace THEN rstrip(SubSeq(s, 1, Len(s) - 1)) ELSE s

\* str.strip()
strip(s) == rstrip(lstrip(s))

\* c in s
Contains(s, c) == \E i \in 1..Len(s) : s[i] = c

DigitSet == {DigitChars[i] : i \in 1..Len(DigitChars)}

IsDigit(c) == c \in DigitSet

RECURSIVE DigitsValue(_)
DigitsValue(s) ==
    IF s = <<>> THEN 0
    ELSE 10 * DigitsValue(SubSeq(s, 1, Len(s) - 1)) + (IndexOf(DigitChars, s[Len(s)]) - 1)

\* the digits of a numeric literal with its single underscores removed
RemoveUnderscores(s) == SelectSeq(s, LAMBDA c : c # "_")

\* digits, with single underscores allowed between two digits
IsDigitBody(s) ==
    /\ s # <<>>
    /\ \A i \in 1..Len(s) : IsDigit(s[i]) \/ s[i] = "_"
    /\ IsDigit(s[1]) /\ IsDigit(s[Len(s)])
    /\ \A i \in 1..(Len(s) - 1) : ~(s[i] = "_" /\ s[i + 1] = "_")

\* the characters bytes.fromhex() skips: the ASCII whitespace \t, \n, \x0b, \f,
\* \r and space
AsciiWhitespace ==
    {"\t", "\n", "", "\f", "\r", " "}

\* the characters int() removes around a numeral: the ASCII whitespace, and
\* \x85 and \xa0, which it maps to a space first; \x1c..\x1f are str.isspace()
\* but not whitespace to int()
IntWhitespace ==
    {"\t", "\n", "", "\f", "\r", " ", "", " "}

RECURSIVE int_lstrip(_)
int_lstrip(s) ==
    IF s = <<>> THEN s
    ELSE IF Head(s) \in IntWhitespace THEN int_lstrip(Tail(s)) ELSE s

RECURSIVE int_rstrip(_)
int_rstrip(s) ==
    IF s = <<>> THEN s
    ELSE IF s[Len(s)] \in IntWhitespace THEN int_rstrip(SubSeq(s, 1, Len(s) - 1)) ELSE s

\* int(s) of a str: [ok |-> TRUE, val |-> n], or ok = FALSE for ValueError
int(s) ==
    LET t == int_rstrip(int_lstrip(s))
        signed == t # <<>> /\ t[1] \in {"+", "-"}
        body == IF signed THEN Tail(t) ELSE t
    IN  IF IsDigitBody(body)
        THEN [ok |-> TRUE,
              val |-> IF signed /\ t[1] = "-"
                      THEN 0 - DigitsValue(RemoveUnderscores(body))
                      ELSE DigitsValue(RemoveUnderscores(body))]
        ELSE [ok |-> FALSE, val |-> 0]

RECURSIVE NatToDigits(_, _)
NatToDigits(n, base) ==
    IF n < base THEN <<HexChars[n + 1]>>
    ELSE Append(NatToDigits(n \div base, base), HexChars[(n % base) + 1])

\* str(n) of a natural number, as in f"user_{n}"
str_int(n) == NatToDigits(n, 10)

(***************************************************************************)
(* bson.ObjectId: 12 bytes, written as 24 hex digits.                      *)
(***************************************************************************)
ObjectIdHexLen == 24

HexSet == {HexChars[i] : i \in 1..Len(HexChars)}

IsHexChar(c) == LowerChar(c) \in HexSet

\* bytes.fromhex(s): whitespace is skipped before a byte, and a byte is two hex
\* digits side by side; [ok |-> TRUE, hex |-> the digits of the bytes, in lower
\* case], or ok = FALSE for ValueError
RECURSIVE fromhex(_)
fromhex(s) ==
    IF s = <<>>
    THEN [ok |-> TRUE, hex |-> <<>>]
    ELSE IF Head(s) \in AsciiWhitespace
    THEN fromhex(Tail(s))
    ELSE IF Len(s) >= 2 /\ IsHexChar(s[1]) /\ IsHexChar(s[2])
    THEN LET rest == fromhex(SubSeq(s, 3, Len(s)))
         IN  [ok |-> rest.ok,
              hex |-> <<LowerChar(s[1]), LowerChar(s[2])>> \o rest.hex]
    ELSE [ok |-> FALSE, hex |-> <<>>]

\* ObjectId(s) does not raise InvalidId: s has 24 characters and bytes.fromhex
\* accepts it (bson/objectid.py), so 24 characters with whitespace between bytes
\* make an ObjectId of fewer than 12 bytes
ObjectIdValid(s) == Len(s) = ObjectIdHexLen /\ fromhex(s).ok

\* ObjectId(s) for a valid s
ObjectId(s) == <<"ObjectId", fromhex(s).hex>>

IsObjectId(x) == Len(x) = 2 /\ x[1] = "ObjectId"

\* str(x) of an ObjectId or of a str
str(x) == IF IsObjectId(x) THEN x[2] ELSE x

\* the n-th ObjectId the driver generates for an inserted document
NewObjectId(n) ==
    LET d == NatToDigits(n, 16)
    IN  <<"ObjectId", [i \in 1..(ObjectIdHexLen - Len(d)) |-> "0"] \o d>>

(***************************************************************************)
(* Authentication helpers (src/main.py 789-812).                           *)
(***************************************************************************)
JWT_SECRET == "your-secret-key-here-change-in-production"

\* timedelta(days=30): the clock of the model counts days
TOKEN_DAYS == 30

\* the passwords of the model
PwSecret == <<"s","e","c","r","e","t">>

PwHunter2 == <<"h","u","n","t","e","r","2">>

PwAbc == <<"a","b","c">>

PwEmpty == <<>>

\* simple_mongo_test.py 77 and debug_auth.py 89: the passwords of the test users
PwTestpass123 == <<"t","e","s","t","p","a","s","s","1","2","3">>

PwTestpassword123 == <<"t","e","s","t","p","a","s","s","w","o","r","d","1","2","3">>

\* hashlib.sha256(password.encode()).hexdigest(), tabulated for the passwords of
\* the model
Sha256Hex(password) ==
    CASE password = PwSecret ->
        <<"2","b","b","8","0","d","5","3","7","b","1","d","a","3","e","3",
          "8","b","d","3","0","3","6","1","a","a","8","5","5","6","8","6",
          "b","d","e","0","e","a","c","d","7","1","6","2","f","e","f","6",
          "a","2","5","f","e","9","7","b","f","5","2","7","a","2","5","b">>
      [] password = PwHunter2 ->
        <<"f","5","2","f","b","d","3","2","b","2","b","3","b","8","6","f",
          "f","8","8","e","f","6","c","4","9","0","6","2","8","2","8","5",
          "f","4","8","2","a","f","1","5","d","d","c","b","2","9","5","4",
          "1","f","9","4","b","c","f","5","2","6","a","3","f","6","c","7">>
      [] password = PwAbc ->
        <<"b","a","7","8","1","6","b","f","8","f","0","1","c","f","e","a",
          "4","1","4","1","4","0","d","e","5","d","a","e","2","2","2","3",
          "b","0","0","3","6","1","a","3","9","6","1","7","7","a","9","c",
          "b","4","1","0","f","f","6","1","f","2","0","0","1","5","a","d">>
      [] password = PwEmpty ->
        <<"e","3","b","0","c","4","4","2","9","8","f","c","1","c","1","4",
          "9","a","f","b","f","4","c","8","9","9","6","f","b","9","2","4",
          "2","7","a","e","4","1","e","4","6","4","9","b","9","3","4","c",
          "a","4","9","5","9","9","1","b","7","8","5","2","b","8","5","5">>
      [] password = PwTestpass123 ->
        <<"7","e","6","e","0","c","3","0","7","9","a","0","8","c","5","c",
          "c","6","0","3","6","7","8","9","b","5","7","e","9","5","1","f",
          "6","5","f","8","2","3","8","3","9","1","3","b","a","1","a","4",
          "9","a","e","9","9","2","5","4","4","f","1","b","4","b","6","e">>
      [] password = PwTestpassword123 ->
        <<"b","5","5","c","8","7","9","2","d","1","c","e","4","5","8","e",
          "2","7","9","3","0","8","8","3","5","f","8","a","9","7","b","5",
          "8","0","2","6","3","5","0","3","e","7","6","e","1","9","9","8",
          "e","2","7","9","7","0","3","e","3","5","a","d","0","c","2","e">>

hash_password(password) == Sha256Hex(password)

\* routers/auth.py 49-50: pwd_context.hash(password), a bcrypt string: the
\* scheme's prefix and a digest
get_password_hash(password) == <<"$","2","b","$">> \o Sha256Hex(password)

\* mutant: every password verifies
verify_password_any(plain_password, hashed_password) == TRUE

verify_password(plain_password, hashed_password) ==
    hash_password(plain_password) = hashed_password

\* jwt.encode(payload, key, algorithm="HS256"): the payload with its HMAC under key
jwt_encode(payload, key) == [payload |-> payload, sig |-> <<"HS256", key, payload>>]

\* jwt.decode(token, key, algorithms=["HS256"]) at time t: the payload, or the
\* exception it raises
jwt_decode(token, key, t) ==
    IF token.sig # <<"HS256", key, token.payload>>
    THEN [raised |-> "InvalidTokenError"]
    ELSE IF token.payload.exp <= t
    THEN [raised |-> "ExpiredSignatureError"]
    ELSE [raised |-> "", payload |-> token.payload]

\* user_data.get("_id", user_data.get("id", "fallback_id"))
UserDataId(user_data) ==
    IF "_id" \in DOMAIN user_data THEN user_data._id
    ELSE IF "id" \in DOMAIN user_data THEN user_data.id
    ELSE <<"f","a","l","l","b","a","c","k","_","i","d">>

create_access_token(user_data, t) ==
    jwt_encode([user_id |-> str(UserDataId(user_data)),
                email |-> user_data.email,
                exp |-> t + TOKEN_DAYS], JWT_SECRET)

\* mutant: an expired signature is accepted
verify_token_ignoring_expiry(token, t) ==
    LET r == jwt_decode(token, JWT_SECRET, t)
    IN  IF r.raised = "InvalidTokenError" THEN None ELSE token.payload

\* the payload, or None for an expired or invalid token
verify_token(token, t) ==
    LET r == jwt_decode(token, JWT_SECRET, t)
    IN  IF r.raised = "" THEN r.payload ELSE None

(***************************************************************************)
(* Bounds and inputs of the model.                                         *)
(***************************************************************************)
\* coroutines of register_user that may be in flight together
NumProcs == 2

\* changes of the store's reachability while registrations run concurrently
MaxFlips == 1

\* changes of the store's reachability during a session of requests or of catalog reads
MaxSessionFlips == 2

\* the clock is sampled within ClockSlack days of day 0 and of a token's expiry
ClockSlack == 1

\* attempts an operation given to execute_with_retry can be asked for
MaxAttempts == 4

Procs == 1..NumProcs

ClockValues ==
    (0..ClockSlack) \cup ((TOKEN_DAYS - ClockSlack)..(TOKEN_DAYS + ClockSlack))

NameAl == <<"A","l"," ">>

NameBlankA == <<" ","A"," ">>

EmailA == <<"a","@","x">>

EmailAUpper == <<" ","A","@","X"," ">>

EmailB == <<"b","@","x">>

EmailNoAt == <<"a","x">>

EmailBlank == <<" ">>

\* datetime.now().strftime('%Y%m%d_%H%M%S') at an earlier run of a test script
\* and at a run one second later
StampEarlier == <<"2","0","2","4","0","1","0","1","_","0","0","0","0","0","0">>

StampLater == <<"2","0","2","4","0","1","0","1","_","0","0","0","0","0","1">>

\* the stamps a run of a test script may take from the clock
TestStamps == {StampEarlier, StampLater}

\* simple_mongo_test.py 69: f"test_{datetime.now().strftime('%Y%m%d_%H%M%S')}@test.com"
EmailTestSimple(stamp) ==
    <<"t","e","s","t","_">> \o stamp \o <<"@","t","e","s","t",".","c","o","m">>

\* debug_auth.py 84:
\* f"test_user_{datetime.now().strftime('%Y%m%d_%H%M%S')}@example.com"
EmailTestDebug(stamp) ==
    <<"t","e","s","t","_","u","s","e","r","_">> \o stamp
        \o <<"@","e","x","a","m","p","l","e",".","c","o","m">>

\* the name of the test users
NameTestUser == <<"T","e","s","t"," ","U","s","e","r">>

\* an address that EmailStr of routers/auth.py accepts
EmailRouter == <<"c","@","x",".","i","o">>

\* a well-formed request, the same email in another letter case and with
\* surrounding blanks, and one request failing each validation
RegisterRequests ==
    { [name |-> NameAl, email |-> EmailA, password |-> PwSecret],
      [name |-> NameAl, email |-> EmailAUpper, password |-> PwSecret],
      [name |-> NameBlankA, email |-> EmailA, password |-> PwSecret],
      [name |-> NameAl, email |-> EmailNoAt, password |-> PwSecret],
      [name |-> NameAl, email |-> EmailA, password |-> PwAbc] }

(***************************************************************************)
(* State.                                                                  *)
(***************************************************************************)
VARIABLES
    phase,              \* "init", "running" (after startup), "stopped" (after shutdown)
    MONGODB_AVAILABLE,  \* the import of the store helpers succeeded (main.py 18-24)
    DB_CONNECTED,       \* main.py 787
    database,           \* mongodb.py 18: None or [name, client] of the database
    storeUp,            \* the store answers calls (environment)
    flips,              \* how many times storeUp changed since startup began
    users,              \* the store's users collection, in insertion order
    FALLBACK_USERS,     \* main.py 784: email -> user record
    products,           \* the store's products collection
    now,                \* the clock, in days
    procs,              \* the register_user coroutines
    reader,             \* the coroutine of a handler that only reads the store
    seeding,            \* the script that writes the products or the users collection
    okRegs,             \* [email, id] of every registration answered with success
    last,               \* the request answered last, with its response
    CATEGORIES,         \* main.py 74
    MONGODB_URL,        \* mongodb.py 21: None or the connection string
    client,             \* mongodb.py 17: None or a client of clients
    clients,            \* every store client created so far: [url, closed]
    boot                \* how startup_db_client went

\* the module-level state that only startup and shutdown touch
connVars == <<CATEGORIES, MONGODB_URL, client, clients, boot>>

vars == <<phase, MONGODB_AVAILABLE, DB_CONNECTED, database, storeUp, flips, users,
          FALLBACK_USERS, products, now, procs, reader, seeding, okRegs, last,
          connVars>>

\* connection strings the environment may hold in MONGODB_URL
UrlPlain == <<"m","o","n","g","o","d","b",":","/","/","u","@","h">>

UrlWithQuery == <<"m","o","n","g","o","d","b",":","/","/","u","@","h","?","w","=","1">>

UrlNoCredentials == <<"m","o","n","g","o","d","b",":","/","/","h">>

\* main.py 74
CategoryList == <<"Electronics", "Clothing", "Books", "Home", "Sports", "Beauty">>

\* before startup no client exists and nothing is known of the connection
NoBoot == [done |-> FALSE]

IdleProc ==
    [pc |-> "idle", request |-> None, attempt |-> 0, calls |-> 0,
     contacted |-> FALSE, stored |-> <<>>, dupAtStart |-> FALSE]

\* no reading handler is in flight
IdleReader == [pc |-> "idle"]

\* no script runs; the drivers have generated made ObjectIds for products, and
\* removed user documents have been deleted; stamp is the time stamp a running
\* test script took from the clock
NoSeeding(made) ==
    [pc |-> "idle", script |-> "", made |-> made, runs |-> 0, removed |-> 0,
     stamp |-> <<>>]

Init ==
    /\ phase = "init"
    /\ MONGODB_AVAILABLE \in BOOLEAN
    /\ DB_CONNECTED = FALSE
    /\ database = None
    /\ storeUp \in BOOLEAN
    /\ flips = 0
    /\ users = <<>>
    /\ FALLBACK_USERS = [e \in {} |-> None]
    /\ products = <<>>
    /\ now = 0
    /\ procs = [p \in Procs |-> IdleProc]
    /\ reader = IdleReader
    /\ seeding = NoSeeding(Len(products))
    /\ okRegs = {}
    /\ last = [op |-> "none"]
    /\ CATEGORIES = CategoryList
    /\ MONGODB_URL = UrlPlain
    /\ client = None
    /\ clients = <<>>
    /\ boot = NoBoot

\* the emails of the records held in the store and in FALLBACK_USERS
StoreEmails == {users[i].email : i \in 1..Len(users)}

StoredEmails == StoreEmails \cup DOMAIN FALLBACK_USERS

(***************************************************************************)
(* startup_db_client / shutdown_db_client (main.py 877-927).               *)
(* connection_successful is what connect_to_mongo returned within the time *)
(* limit; it can be True only when the helpers were imported and the store *)
(* answered the ping.                                                      *)
(***************************************************************************)
\* mongodb.py 22
DATABASE_NAME == "megacart"

\* main.py 887: seconds startup waits for connect_to_mongo
STARTUP_TIMEOUT == 10

\* mongodb.py 127: seconds connect_with_different_formats waits for a ping
PING_TIMEOUT == 8

\* mongodb.py 60: seconds test_direct_connection waits for the server
DIRECT_TIMEOUT == 5

StartsWith(s, prefix) == Len(s) >= Len(prefix) /\ SubSeq(s, 1, Len(prefix)) = prefix

ProtocolMongodb == <<"m","o","n","g","o","d","b",":","/","/">>

ProtocolMongodbSrv == <<"m","o","n","g","o","d","b","+","s","r","v",":","/","/">>

\* mongodb.py 24-50
debug_connection_string(url) ==
    IF url = None \/ url = <<>>
    THEN FALSE
    ELSE ~ \/ Contains(url, " ")
           \/ ~(StartsWith(url, ProtocolMongodb) \/ StartsWith(url, ProtocolMongodbSrv))
           \/ ~Contains(url, "@")

SslOptions == <<"?","s","s","l","=","t","r","u","e","&","s","s","l","_","c","e","r","t","_","r","e","q","s","=","C","E","R","T","_","N","O","N","E">>

RetryOptions == <<"?","r","e","t","r","y","W","r","i","t","e","s","=","t","r","u","e","&","w","=","m","a","j","o","r","i","t","y">>

NoSslOption == <<"?","s","s","l","=","f","a","l","s","e">>

\* mutant: the option variants are always added
ConnectionFormats_unconditional(base_url) ==
    <<base_url, base_url \o SslOptions, base_url \o RetryOptions, base_url \o NoSslOption>>

\* mongodb.py 87-111: the connection strings to try, in order
ConnectionFormats(base_url) ==
    <<base_url>> \o
    (IF ~Contains(base_url, "?")
     THEN <<base_url \o SslOptions, base_url \o RetryOptions, base_url \o NoSslOption>>
     ELSE <<>>)

\* what one pass of the loop of mongodb.py 113-139 meets: the client's
\* constructor raises; the ping succeeds; the ping fails at once; the ping gets
\* no answer for PING_TIMEOUT seconds; the ping fails and client.close() raises
AttemptKinds == {"ctor_raises", "ping_ok", "ping_fails", "ping_hangs", "close_raises"}

\* the AsyncIOMotorClient object recorded at position c of clients
ClientRef(c) == [type |-> "AsyncIOMotorClient", id |-> c]

\* client.close() on the client cl
CloseClient(cls, cl) == [cls EXCEPT ![cl.id].closed = TRUE]

\* mongodb.py 113-141 from the k-th format on.  st is [client, clients,
\* database, elapsed, tried]; outcomes[k] is what the k-th pass meets.  The
\* result adds ret: "True" or "False" for a return, "cancelled" when the time
\* limit of the caller cancels the pending ping, "raised" for an exception, and
\* hit, the position of the format whose ping succeeded (0 if none).
RECURSIVE ConnectFrom(_, _, _, _)
ConnectFrom(formats, k, st, outcomes) ==
    IF k > Len(formats)
    THEN [st EXCEPT !.ret = "False"]
    ELSE LET o == outcomes[k]
             tried == Append(st.tried, formats[k])
         IN  IF o = "ctor_raises"
             THEN ConnectFrom(formats, k + 1,
                      [st EXCEPT !.tried = tried,
                                 !.clients = IF st.client # None
                                             THEN CloseClient(@, st.client) ELSE @,
                                 !.client = None],
                      outcomes)
             ELSE LET c == Len(st.clients) + 1
                      made == [st EXCEPT !.tried = tried,
                                         !.client = ClientRef(c),
                                         !.clients = Append(@, [url |-> formats[k],
                                                               closed |-> FALSE])]
                  IN  IF o = "ping_ok"
                      THEN [made EXCEPT !.database = [name |-> DATABASE_NAME, client |-> c],
                                        !.ret = "True", !.hit = k]
                      ELSE IF o = "close_raises"
                      THEN [made EXCEPT !.ret = "raised"]
                      ELSE IF o = "ping_hangs" /\ st.elapsed + PING_TIMEOUT > STARTUP_TIMEOUT
                      THEN [made EXCEPT !.ret = "cancelled", !.elapsed = STARTUP_TIMEOUT]
                      ELSE ConnectFrom(formats, k + 1,
                               [made EXCEPT !.clients = CloseClient(@, ClientRef(c)),
                                            !.client = None,
                                            !.elapsed = IF o = "ping_hangs"
                                                        THEN @ + PING_TIMEOUT ELSE @],
                               outcomes)

\* mongodb.py 79-141
connect_with_different_formats(url, st, outcomes) ==
    IF url = None \/ url = <<>>
    THEN [st EXCEPT !.ret = "False"]
    ELSE ConnectFrom(ConnectionFormats(url), 1, st, outcomes)

\* mutant: the direct test alone decides, no client is connected
connect_to_mongo_direct_only(url, st, direct, outcomes) ==
    IF ~debug_connection_string(url)
    THEN [st EXCEPT !.ret = "False"]
    ELSE [st EXCEPT !.ret = IF direct.ok THEN "True" ELSE "False",
                    !.elapsed = direct.took]

\* mongodb.py 143-167; direct is what test_direct_connection (mongodb.py
\* 52-77) returned and how long it kept the event loop
connect_to_mongo(url, st, direct, outcomes) ==
    IF ~debug_connection_string(url)
    THEN [st EXCEPT !.ret = "False"]
    ELSE IF ~direct.ok
    THEN [st EXCEPT !.ret = "False", !.elapsed = direct.took]
    ELSE connect_with_different_formats(url, [st EXCEPT !.elapsed = direct.took], outcomes)

\* the module-level state of mongodb.py as connect_to_mongo finds it
ConnState == [client |-> client, clients |-> clients, database |-> database,
              elapsed |-> 0, tried |-> <<>>, ret |-> "", hit |-> 0]

\* mutant: only a returned False leaves the service in fallback mode
StartupOutcome_optimistic(ret) ==
    [DB_CONNECTED |-> ret # "False", raised |-> FALSE]

\* main.py 883-912: what startup_db_client makes of the awaited
\* connect_to_mongo: its result, the TimeoutError of wait_for (906-908), or an
\* exception (909-912); raised tells whether an exception leaves the handler
StartupOutcome(ret) ==
    [DB_CONNECTED |-> ret = "True", raised |-> FALSE]

\* how many times the store changed along the sequence seq of its states
StoreChanges(seq) == Cardinality({i \in 1..(Len(seq) - 1) : seq[i] # seq[i + 1]})

\* the states of the store at n moments, with at most one change between them
StoreHistories(n) ==
    {[k \in 1..n |-> IF k < j THEN b ELSE ~b] : j \in 1..n, b \in BOOLEAN}

\* main.py 877-917 with connect_to_mongo going as direct and outcomes tell.  The
\* handler waits at the direct test and at every ping, and the store may change
\* meanwhile: ups[1] tells whether the store answers at the direct test,
\* ups[k + 1] at the ping of the k-th format, and the last of ups when startup
\* returns.  A direct test or a ping succeeds only on a store that answers
startup_db_client_with(direct, outcomes, ups) ==
    /\ phase = "init"
    /\ phase' = "running"
    /\ Len(ups) = Len(outcomes) + 2
    /\ flips + StoreChanges(<<storeUp>> \o ups) <= MaxFlips
    /\ direct.ok => ups[1]
    /\ \A k \in 1..Len(outcomes) : outcomes[k] = "ping_ok" => ups[k + 1]
    /\ storeUp' = ups[Len(ups)]
    /\ flips' = flips + StoreChanges(<<storeUp>> \o ups)
    /\ IF MONGODB_AVAILABLE
       THEN LET r == connect_to_mongo(MONGODB_URL, ConnState, direct, outcomes)
                o == StartupOutcome(r.ret)
            IN  /\ DB_CONNECTED' = o.DB_CONNECTED
                /\ database' = r.database
                /\ client' = r.client
                /\ clients' = r.clients
                /\ boot' = [done |-> TRUE, available |-> TRUE, ret |-> r.ret,
                            raised |-> o.raised,
                            tried |-> r.tried, hit |-> r.hit, elapsed |-> r.elapsed,
                            met |-> SubSeq(outcomes, 1, Len(r.tried)),
                            before |-> Len(clients)]
       ELSE /\ DB_CONNECTED' = FALSE
            /\ boot' = [done |-> TRUE, available |-> FALSE, ret |-> "", raised |-> FALSE,
                        tried |-> <<>>, hit |-> 0, elapsed |-> 0, met |-> <<>>,
                        before |-> Len(clients)]
            /\ UNCHANGED <<database, client, clients>>
    /\ UNCHANGED <<CATEGORIES, MONGODB_URL, MONGODB_AVAILABLE, users,
                   FALLBACK_USERS, products, now, procs, reader, seeding, okRegs, last>>

\* mongodb.py 93-111: connect_with_different_formats builds at most 4 formats
MAX_FORMATS == 4

\* courses of connect_to_mongo, one for each way startup_db_client ends: the
\* direct test fails; the first format answers; a later format answers after a
\* raising constructor and a failed ping; every ping fails; the time limit of
\* main.py 887 cancels the second ping after the first hung, leaving its client
\* open; the close() after a failed ping raises.  The store may change at every
\* wait of each course
StartupCourses ==
    { [direct |-> [ok |-> FALSE, took |-> 0],
       outcomes |-> <<"ping_fails", "ping_fails", "ping_fails", "ping_fails">>],
      [direct |-> [ok |-> TRUE, took |-> 0],
       outcomes |-> <<"ping_ok", "ping_ok", "ping_ok", "ping_ok">>],
      [direct |-> [ok |-> TRUE, took |-> 0],
       outcomes |-> <<"ctor_raises", "ping_fails", "ping_ok", "ping_ok">>],
      [direct |-> [ok |-> TRUE, took |-> 0],
       outcomes |-> <<"ping_fails", "ping_fails", "ping_fails", "ping_fails">>],
      [direct |-> [ok |-> TRUE, took |-> 0],
       outcomes |-> <<"ping_hangs", "ping_hangs", "ping_fails", "ping_fails">>],
      [direct |-> [ok |-> TRUE, took |-> 0],
       outcomes |-> <<"ping_fails", "close_raises", "ping_fails", "ping_fails">>] }

\* mongodb.py 169-179; close_raises tells whether client.close() raises, which
\* the except branch only prints: client and database stay set
close_mongo_connection(st, close_raises) ==
    IF st.client # None /\ ~close_raises
    THEN [st EXCEPT !.clients = CloseClient(@, st.client), !.client = None,
                    !.database = None]
    ELSE st

\* main.py 919-927
shutdown_db_client(close_raises) ==
    /\ phase = "running"
    /\ \A p \in Procs : procs[p].pc = "idle"
    /\ reader.pc = "idle"
    /\ close_raises => (MONGODB_AVAILABLE /\ DB_CONNECTED /\ client # None)
    /\ phase' = "stopped"
    /\ DB_CONNECTED' = FALSE
    /\ LET r == IF MONGODB_AVAILABLE /\ DB_CONNECTED
                THEN close_mongo_connection(ConnState, close_raises) ELSE ConnState
       IN  /\ database' = r.database
           /\ client' = r.client
           /\ clients' = r.clients
    /\ UNCHANGED <<CATEGORIES, MONGODB_URL, boot, MONGODB_AVAILABLE, storeUp, flips, users,
                   FALLBACK_USERS, products, now, procs, reader, seeding, okRegs, last>>

(***************************************************************************)
(* Environment: the store becomes unreachable or reachable; time passes.   *)
(***************************************************************************)
\* before startup the store changes freely (flips counts from startup on)
StoreFlip(limit) ==
    /\ phase \in {"init", "running"}
    /\ phase = "running" => flips < limit
    /\ storeUp' = ~storeUp
    /\ flips' = IF phase = "running" THEN flips + 1 ELSE flips
    /\ UNCHANGED <<connVars, reader, seeding, phase, MONGODB_AVAILABLE, DB_CONNECTED, database, users,
                   FALLBACK_USERS, products, now, procs, okRegs, last>>

Tick(t) ==
    /\ phase = "running"
    /\ t > now
    /\ now' = t
    /\ UNCHANGED <<connVars, reader, seeding, phase, MONGODB_AVAILABLE, DB_CONNECTED, database, storeUp, flips,
                   users, FALLBACK_USERS, products, procs, okRegs, last>>

(***************************************************************************)
(* Store calls and the retry wrapper.                                      *)
(***************************************************************************)
\* mutant: the handlers try the store whenever its helpers were imported
StoreMode_ignoring_flag == MONGODB_AVAILABLE

\* "if DB_CONNECTED and MONGODB_AVAILABLE": the handler takes its store branch
StoreMode == DB_CONNECTED /\ MONGODB_AVAILABLE

\* max_retries of the execute_with_retry calls of main.py
MAX_RETRIES == 2

\* delay of the execute_with_retry calls of main.py (0.5 s), in milliseconds
RETRY_DELAY_MS == 500

\* collection.find_one(filter): the first document of coll among those the
\* filter accepts (matching is the set of their positions), or None
find_one(coll, matching) ==
    IF matching = {}
    THEN None
    ELSE coll[CHOOSE i \in matching : \A j \in matching : i <= j]

\* db.users.find_one({"email": email})
find_one_email(coll, email) ==
    find_one(coll, {i \in 1..Len(coll) : coll[i].email = email})

\* find_one({"_id": oid})
find_one_id(coll, oid) ==
    find_one(coll, {i \in 1..Len(coll) : coll[i]._id = oid})

Raised(exc) == [raised |-> TRUE, exc |-> exc, value |-> None]

Returned(value) == [raised |-> FALSE, exc |-> "", value |-> value]

\* mongodb.py 199-210 from attempt number attempt on; outcomes[k] is what the
\* k-th invocation of operation does
RECURSIVE RetryFrom(_, _, _, _, _)
RetryFrom(outcomes, max_retries, delay, attempt, waits) ==
    IF attempt >= max_retries
    THEN [raised |-> FALSE, exc |-> "", value |-> None, calls |-> attempt,
          waits |-> waits]
    ELSE LET o == outcomes[attempt + 1]
         IN  IF ~o.raised
             THEN [raised |-> FALSE, exc |-> "", value |-> o.value,
                   calls |-> attempt + 1, waits |-> waits]
             ELSE IF attempt = max_retries - 1
             THEN [raised |-> TRUE, exc |-> o.exc, value |-> None,
                   calls |-> attempt + 1, waits |-> waits]
             ELSE RetryFrom(outcomes, max_retries, 2 * delay, attempt + 1,
                            Append(waits, delay))

\* mutant: every attempt is made, whatever the earlier ones did
execute_with_retry_exhaustive(outcomes, max_retries, delay) ==
    LET r == RetryFrom(outcomes, max_retries, delay, 0, <<>>)
    IN  IF max_retries >= 1 THEN [r EXCEPT !.calls = max_retries] ELSE r

\* mutant: the delay grows by a constant step
execute_with_retry_linear(outcomes, max_retries, delay) ==
    LET r == RetryFrom(outcomes, max_retries, delay, 0, <<>>)
    IN  [r EXCEPT !.waits = [k \in DOMAIN r.waits |-> k * delay]]

\* mutant: the failure of the last attempt is swallowed
execute_with_retry_swallowing(outcomes, max_retries, delay) ==
    LET r == RetryFrom(outcomes, max_retries, delay, 0, <<>>)
    IN  IF r.raised THEN [r EXCEPT !.raised = FALSE, !.exc = ""] ELSE r

execute_with_retry(outcomes, max_retries, delay) ==
    RetryFrom(outcomes, max_retries, delay, 0, <<>>)

\* what an attempt of an operation may do: raise one of two exceptions, return
\* None, return a value
AttemptOutcomes ==
    {Raised("ConnectionError"), Raised("TimeoutError"), Returned(None),
     Returned([type |-> "value"])}

\* an operation, by what each of its invocations does
Operations == [1..MaxAttempts -> AttemptOutcomes]

RetryLimits == (-1)..MaxAttempts

\* delays, in milliseconds
RetryDelays == {0, 1, RETRY_DELAY_MS}

\* a call execute_with_retry(operation, max_retries, delay), on its own
retry_call(outcomes, max_retries, delay) ==
    /\ last.op = "none"
    /\ last' = [op |-> "execute_with_retry", outcomes |-> outcomes,
                max_retries |-> max_retries, delay |-> delay,
                result |-> execute_with_retry(outcomes, max_retries, delay)]
    /\ UNCHANGED <<connVars, reader, seeding, phase, MONGODB_AVAILABLE, DB_CONNECTED, database, storeUp,
                   flips, users, FALLBACK_USERS, products, now, procs, okRegs>>

\* mongodb.py 199-210, one turn of the loop: an invocation of operation ended
\* with outcome o after `attempt` invocations had raised; execute_with_retry is
\* done with a result, or sleeps and invokes operation again
RetryStep(o, attempt, max_retries) ==
    IF ~o.raised
    THEN [done |-> TRUE,
          result |-> [raised |-> FALSE, exc |-> "", value |-> o.value,
                      calls |-> attempt + 1]]
    ELSE IF attempt = max_retries - 1
    THEN [done |-> TRUE,
          result |-> [raised |-> TRUE, exc |-> o.exc, value |-> None,
                      calls |-> attempt + 1]]
    ELSE [done |-> FALSE, result |-> None]

\* an invocation that made its first store call, which failed, and goes on in
\* its except branch with a second store call
Pending == [raised |-> FALSE, exc |-> "", value |-> None, pending |-> TRUE]

IsPending(o) == "pending" \in DOMAIN o

(***************************************************************************)
(* register_user (main.py 1016-1137).                                      *)
(***************************************************************************)

MIN_NAME_LEN == 2

MIN_PASSWORD_LEN == 6

\* mutant: the name is measured before it is stripped
RegisterValid_unstripped(request) ==
    /\ ~(request.name = <<>> \/ Len(request.name) < MIN_NAME_LEN)
    /\ ~(request.email = <<>> \/ ~Contains(request.email, "@"))
    /\ ~(request.password = <<>> \/ Len(request.password) < MIN_PASSWORD_LEN)

\* main.py 1022-1039: the request passes the three validations
RegisterValid(request) ==
    /\ ~(request.name = <<>> \/ Len(strip(request.name)) < MIN_NAME_LEN)
    /\ ~(request.email = <<>> \/ ~Contains(request.email, "@"))
    /\ ~(request.password = <<>> \/ Len(request.password) < MIN_PASSWORD_LEN)

\* main.py 1041 and 1145
NormalizeEmail(email) == strip(lower(email))

UserPrefix == <<"u","s","e","r","_">>

\* mutant: every fallback user gets the id of the first one
RegisterFallback_first_id(fb, email, name, hashed_password, t) ==
    IF email \in DOMAIN fb
    THEN [status |-> 400, users |-> fb, token |-> None, user |-> None, new |-> <<>>]
    ELSE LET user_id == UserPrefix \o str_int(1)
             user_data == [id |-> user_id, _id |-> user_id, name |-> name,
                           email |-> email, password |-> hashed_password]
         IN  [status |-> 200,
              users |-> [e \in DOMAIN fb \cup {email} |->
                            IF e = email THEN user_data ELSE fb[e]],
              token |-> create_access_token(user_data, t),
              user |-> [id |-> user_id, name |-> name, email |-> email],
              new |-> <<user_data>>]

\* main.py 1093-1127: the registration in FALLBACK_USERS fb at time t
RegisterFallback(fb, email, name, hashed_password, t) ==
    IF email \in DOMAIN fb
    THEN [status |-> 400, users |-> fb, token |-> None, user |-> None, new |-> <<>>]
    ELSE LET user_id == UserPrefix \o str_int(Cardinality(DOMAIN fb) + 1)
             user_data == [id |-> user_id, _id |-> user_id, name |-> name,
                           email |-> email, password |-> hashed_password]
         IN  [status |-> 200,
              users |-> [e \in DOMAIN fb \cup {email} |->
                            IF e = email THEN user_data ELSE fb[e]],
              token |-> create_access_token(user_data, t),
              user |-> [id |-> user_id, name |-> name, email |-> email],
              new |-> <<user_data>>]

\* main.py 1057-1063: the document register_in_mongodb inserts
NewUserData(request) ==
    [name |-> strip(request.name),
     email |-> NormalizeEmail(request.email),
     password |-> hash_password(request.password)]

\* the response of coroutine p, whose bookkeeping is pr, reaches the client
RegisterRespond(p, pr, status, token, user) ==
    /\ procs' = [procs EXCEPT ![p] = IdleProc]
    /\ last' = [op |-> "register", request |-> pr.request, at |-> now,
                status |-> status,
                token |-> token, user |-> user, stored |-> pr.stored,
                calls |-> pr.calls,
                contacted |-> pr.contacted, dupAtStart |-> pr.dupAtStart]
    /\ okRegs' = IF status = 200
                 THEN okRegs \cup {[email |-> user.email, id |-> user.id]}
                 ELSE okRegs

\* main.py 1088-1127: execute_with_retry raised exc out of the store branch, or
\* the store branch was skipped (exc = "")
RegisterAfterStore(p, pr, exc) ==
    IF exc = "HTTPException"
    THEN /\ RegisterRespond(p, pr, 400, None, None)
         /\ UNCHANGED FALLBACK_USERS
    ELSE LET d == NewUserData(pr.request)
             r == RegisterFallback(FALLBACK_USERS, d.email, d.name, d.password, now)
         IN  /\ FALLBACK_USERS' = r.users
             /\ RegisterRespond(p, [pr EXCEPT !.stored = @ \o r.new],
                                r.status, r.token, r.user)

\* mongodb.py 204-209: an attempt of register_in_mongodb raised exc
RegisterAttemptRaised(p, pr, exc) ==
    IF pr.attempt = MAX_RETRIES - 1
    THEN RegisterAfterStore(p, pr, exc)
    ELSE /\ procs' = [procs EXCEPT ![p] = [pr EXCEPT !.attempt = @ + 1,
                                                     !.pc = "find_one"]]
         /\ UNCHANGED <<FALLBACK_USERS, okRegs, last>>

\* main.py 1017-1046: the request arrives; validation, then the store branch up to
\* its first await, or the fallback branch
register_user(p, request) ==
    /\ phase = "running"
    /\ procs[p].pc = "idle"
    /\ LET pr == [IdleProc EXCEPT
                    !.request = request,
                    !.dupAtStart = NormalizeEmail(request.email) \in StoredEmails]
       IN  IF ~RegisterValid(request)
           THEN /\ RegisterRespond(p, pr, 422, None, None)
                /\ UNCHANGED FALLBACK_USERS
           ELSE IF StoreMode
           THEN /\ procs' = [procs EXCEPT ![p] = [pr EXCEPT !.pc = "find_one"]]
                /\ UNCHANGED <<FALLBACK_USERS, okRegs, last>>
           ELSE RegisterAfterStore(p, pr, "")
    /\ UNCHANGED <<connVars, reader, seeding, phase, MONGODB_AVAILABLE, DB_CONNECTED, database, storeUp, flips,
                   users, products, now>>

\* main.py 1049-1054: get_database() and the awaited find_one({"email": email})
register_find_one(p) ==
    /\ phase = "running"
    /\ procs[p].pc = "find_one"
    /\ LET pr == [procs[p] EXCEPT !.contacted = @ \/ database # None,
                                  !.calls = @ + 1]
           email == NormalizeEmail(procs[p].request.email)
       IN  IF database = None \/ ~storeUp
           THEN RegisterAttemptRaised(p, pr, "Exception")
           ELSE IF find_one_email(users, email) # None
           THEN RegisterAttemptRaised(p, pr, "HTTPException")
           ELSE /\ procs' = [procs EXCEPT ![p] = [pr EXCEPT !.pc = "insert_one"]]
                /\ UNCHANGED <<FALLBACK_USERS, okRegs, last>>
    /\ UNCHANGED <<connVars, reader, seeding, phase, MONGODB_AVAILABLE, DB_CONNECTED, database, storeUp, flips,
                   users, products, now>>

\* the document insert_one stores: new_user_data with the generated _id
InsertedUser(request) ==
    LET d == NewUserData(request)
    IN  [_id |-> NewObjectId(Len(users) + seeding.removed + 1), name |-> d.name,
         email |-> d.email,
         password |-> d.password]

\* main.py 1065-1086: the awaited insert_one; acknowledged when the store is
\* reachable, raising without effect when it is not
register_insert_one(p) ==
    /\ phase = "running"
    /\ procs[p].pc = "insert_one"
    /\ IF storeUp
       THEN LET user_data == InsertedUser(procs[p].request)
                pr == [procs[p] EXCEPT !.stored = Append(@, user_data)]
            IN  /\ users' = Append(users, user_data)
                /\ RegisterRespond(p, pr, 200, create_access_token(user_data, now),
                                   [id |-> str(user_data._id), name |-> user_data.name,
                                    email |-> user_data.email])
                /\ UNCHANGED FALLBACK_USERS
       ELSE /\ RegisterAttemptRaised(p, procs[p], "Exception")
            /\ UNCHANGED users
    /\ UNCHANGED <<connVars, reader, seeding, phase, MONGODB_AVAILABLE, DB_CONNECTED, database, storeUp, flips,
                   products, now>>

\* the awaited insert_one takes effect in the store, which becomes unreachable
\* before the acknowledgement arrives: the call raises
register_insert_one_unacknowledged(p, limit) ==
    /\ phase = "running"
    /\ procs[p].pc = "insert_one"
    /\ storeUp
    /\ flips < limit
    /\ LET user_data == InsertedUser(procs[p].request)
           pr == [procs[p] EXCEPT !.stored = Append(@, user_data)]
       IN  /\ users' = Append(users, user_data)
           /\ RegisterAttemptRaised(p, pr, "Exception")
    /\ storeUp' = FALSE
    /\ flips' = flips + 1
    /\ UNCHANGED <<connVars, reader, seeding, phase, MONGODB_AVAILABLE, DB_CONNECTED, database, products, now>>

(***************************************************************************)
(* login_user (main.py 1139-1218).                                         *)
(***************************************************************************)
\* one attempt of login_from_mongodb (main.py 1157-1159) with the store up or not
login_from_mongodb(email, up) ==
    IF database = None \/ ~up
    THEN Raised("Exception")
    ELSE Returned(find_one_email(users, email))

\* the response of login_user, r being what execute_with_retry gave in the store
\* branch (None when the branch is skipped).  user["password"] of a document
\* without that field raises KeyError inside the try of main.py 1155-1177, whose
\* except goes on to FALLBACK_USERS
LoginResponse(request, r, fb, t) ==
    LET email == NormalizeEmail(request.email)
        password == request.password
    IN  IF email = <<>> \/ password = <<>>
        THEN [status |-> 422, token |-> None, user |-> None]
        ELSE IF /\ r # None
                /\ ~r.raised
                /\ r.value # None
                /\ "password" \in DOMAIN r.value
                /\ verify_password(password, r.value.password)
        THEN [status |-> 200,
              token |-> create_access_token(r.value, t),
              user |-> [id |-> str(r.value._id), name |-> r.value.name,
                        email |-> r.value.email]]
        ELSE IF email \in DOMAIN fb /\ verify_password(password, fb[email].password)
        THEN [status |-> 200,
              token |-> create_access_token(fb[email], t),
              user |-> [id |-> fb[email].id, name |-> fb[email].name,
                        email |-> fb[email].email]]
        ELSE [status |-> 401, token |-> None, user |-> None]

(***************************************************************************)
(* get_current_user (main.py 814-874), the dependency of GET /auth/me and  *)
(* GET /api/profile.                                                       *)
(***************************************************************************)
\* one invocation of find_user (main.py 835-840); ups[k] tells whether the store
\* answers the k-th store call of the invocation.  ObjectId(user_id) raising and
\* the first store call failing both lead to the except branch, which looks the
\* user up by email
find_user(user_id, email, ups) ==
    IF database = None
    THEN Raised("ConnectionError")
    ELSE IF ObjectIdValid(user_id) /\ ups[1]
    THEN Returned(find_one_id(users, ObjectId(user_id)))
    ELSE LET k == IF ObjectIdValid(user_id) THEN 2 ELSE 1
         IN  IF Len(ups) < k
             THEN Pending
             ELSE IF ups[k]
             THEN Returned(find_one_email(users, email))
             ELSE Raised("Exception")

\* the answer of get_current_user for a verified payload
CurrentUserResponse(payload, r, fb) ==
    IF r # None /\ ~r.raised /\ r.value # None
    THEN [status |-> 200,
          user |-> [id |-> str(r.value._id), name |-> r.value.name,
                    email |-> r.value.email]]
    ELSE IF payload.email \in DOMAIN fb
    THEN [status |-> 200,
          user |-> [id |-> fb[payload.email].id, name |-> fb[payload.email].name,
                    email |-> fb[payload.email].email]]
    ELSE [status |-> 401, user |-> None]

\* the tokens the client holds: the one of the last response, or the one it sent
HeldTokens ==
    (IF "token" \in DOMAIN last /\ last.token # None THEN {last.token} ELSE {})
    \cup
    (IF "credentials" \in DOMAIN last /\ last.credentials # None
     THEN {last.credentials} ELSE {})

Genuine(token) == token.sig = <<"HS256", JWT_SECRET, token.payload>>

\* a token signed with another key, and a token whose expiry was pushed back
\* without re-signing
Forge(token) == [token EXCEPT !.sig = <<"HS256", "attacker-key", token.payload>>]

Tamper(token) == [token EXCEPT !.payload.exp = @ + TOKEN_DAYS]

\* what a client can send as bearer credentials
Credentials ==
    {None} \cup HeldTokens
    \cup {Forge(t) : t \in {h \in HeldTokens : Genuine(h)}}
    \cup {Tamper(t) : t \in {h \in HeldTokens : Genuine(h)}}

SessionRegisterRequests ==
    { [name |-> NameAl, email |-> EmailA, password |-> PwSecret],
      [name |-> NameAl, email |-> EmailAUpper, password |-> PwHunter2],
      [name |-> NameAl, email |-> EmailB, password |-> PwSecret] }

\* a registered email in another letter case with each password, another email,
\* a blank email and an empty password
LoginRequests ==
    { [email |-> EmailAUpper, password |-> PwSecret],
      [email |-> EmailAUpper, password |-> PwHunter2],
      [email |-> EmailA, password |-> PwEmpty] }

ProtectedRoutes == {"/auth/me", "/api/profile"}

(***************************************************************************)
(* Catalog (main.py 74-781, 942-1008).                                     *)
(***************************************************************************)
\* SAMPLE_PRODUCTS holds the ids 1..64
NUM_SAMPLE_PRODUCTS == 64

\* main.py 76-781, each entry with its id and a stand-in for its other fields
SAMPLE_PRODUCTS ==
    [i \in 1..NUM_SAMPLE_PRODUCTS |-> [id |-> i, name |-> <<"sample", i>>]]

\* length of find().to_list(1000)
TO_LIST_LENGTH == 1000

\* cursor.to_list(length): at most length documents
to_list(coll, length) == SubSeq(coll, 1, IF Len(coll) < length THEN Len(coll) ELSE length)

\* product["_id"] = str(product["_id"])
WithStrId(doc) == [doc EXCEPT !._id = str(@)]

\* a products collection whose k-th document has the numeric id ids[k]
MakeProducts(ids) ==
    [k \in 1..Len(ids) |->
        [_id |-> NewObjectId(k), id |-> ids[k], name |-> <<"store", ids[k]>>]]

\* populate_db.py: PRODUCTS holds the ids 1..45
NUM_POPULATED == 45

\* populate_db.py 503-518: the products collection after populate()
PopulatedProducts == MakeProducts([k \in 1..NUM_POPULATED |-> k])

\* the products collections the store may hold: none, two documents (one id of
\* SAMPLE_PRODUCTS, one beyond it) and the documents of populate()
ProductCollections ==
    { <<>>,
      MakeProducts(<<70, 1>>),
      PopulatedProducts }

\* the same, and a collection of one document more than to_list returns
ListingCollections ==
    ProductCollections \cup { MakeProducts([k \in 1..(TO_LIST_LENGTH + 1) |-> k]) }

\* one attempt of fetch_products (main.py 950-952)
fetch_products(up) ==
    IF database = None \/ ~up
    THEN Raised("Exception")
    ELSE Returned(to_list(products, TO_LIST_LENGTH))

\* main.py 957-970: what get_products returns, r being the result of the store
\* branch (None when the branch is skipped)
ProductsResponse(r) ==
    IF r # None /\ ~r.raised /\ Len(r.value) > 0
    THEN [k \in 1..Len(r.value) |-> WithStrId(r.value[k])]
    ELSE SAMPLE_PRODUCTS

\* one invocation of fetch_single_product (main.py 980-985); ups[k] tells whether
\* the store answers the k-th store call of the invocation.  ObjectId(product_id)
\* raising and the first store call failing both lead to the except branch,
\* which looks the product up by int(product_id)
fetch_single_product(product_id, ups) ==
    IF database = None
    THEN Raised("ConnectionError")
    ELSE IF ObjectIdValid(product_id) /\ ups[1]
    THEN Returned(find_one_id(products, ObjectId(product_id)))
    ELSE IF ~int(product_id).ok
    THEN Raised("ValueError")
    ELSE LET k == IF ObjectIdValid(product_id) THEN 2 ELSE 1
         IN  IF Len(ups) < k
             THEN Pending
             ELSE IF ups[k]
             THEN Returned(find_one(products,
                      {i \in 1..Len(products) :
                          /\ "id" \in DOMAIN products[i]
                          /\ products[i].id = int(product_id).val}))
             ELSE Raised("Exception")

\* mutant: the loop returns the first entry without comparing ids
sample_lookup_first(n) == SAMPLE_PRODUCTS[1]

\* main.py 998-1005: the entry of SAMPLE_PRODUCTS with the id n, or None
sample_lookup(n) ==
    find_one(SAMPLE_PRODUCTS,
             {i \in 1..Len(SAMPLE_PRODUCTS) : SAMPLE_PRODUCTS[i].id = n})

\* main.py 989-1008: what get_product answers, r being the result of the store
\* branch (None when the branch is skipped)
ProductResponse(product_id, r) ==
    IF r # None /\ ~r.raised /\ r.value # None
    THEN [status |-> 200, body |-> WithStrId(r.value)]
    ELSE IF int(product_id).ok /\ sample_lookup(int(product_id).val) # None
    THEN [status |-> 200, body |-> sample_lookup(int(product_id).val)]
    ELSE [status |-> 404, body |-> None]

\* what GET /api/products/ answers in the current state of the store
ListingNow ==
    ProductsResponse(
        IF StoreMode
        THEN execute_with_retry(<<fetch_products(storeUp), fetch_products(storeUp)>>,
                                MAX_RETRIES, RETRY_DELAY_MS)
        ELSE None)

\* what GET /api/products/{product_id} answers in the current state of the store
LookupNow(product_id) ==
    ProductResponse(product_id,
        IF StoreMode
        THEN execute_with_retry(<<fetch_single_product(product_id, <<storeUp, storeUp>>),
                                  fetch_single_product(product_id, <<storeUp, storeUp>>)>>,
                                MAX_RETRIES, RETRY_DELAY_MS)
        ELSE None)

(***************************************************************************)
(* get_categories (main.py 1010-1013) and get_all_users (main.py 1226-1282).*)
(***************************************************************************)
\* mutant: the list is answered only in fallback mode
get_categories_by_mode ==
    /\ phase = "running"
    /\ last' = [op |-> "get_categories", at |-> now, status |-> 200,
                body |-> IF StoreMode THEN <<>> ELSE CATEGORIES, calls |-> 0]
    /\ UNCHANGED <<connVars, reader, seeding, phase, MONGODB_AVAILABLE, DB_CONNECTED, database, storeUp,
                   flips, users, FALLBACK_USERS, products, now, procs, okRegs>>

get_categories ==
    /\ phase = "running"
    /\ last' = [op |-> "get_categories", at |-> now, status |-> 200,
                body |-> CATEGORIES, calls |-> 0]
    /\ UNCHANGED <<connVars, reader, seeding, phase, MONGODB_AVAILABLE, DB_CONNECTED, database, storeUp,
                   flips, users, FALLBACK_USERS, products, now, procs, okRegs>>

\* length of find({}, {"password": 0}).to_list(100)
USERS_LIST_LENGTH == 100

\* mutant: the documents are listed with every field
WithoutPassword_nothing(doc) == doc

\* the projection {"password": 0}
WithoutPassword(doc) == [f \in DOMAIN doc \ {"password"} |-> doc[f]]

\* one attempt of fetch_mongo_users (main.py 1235-1237)
fetch_mongo_users(up) ==
    IF database = None \/ ~up
    THEN Raised("Exception")
    ELSE Returned(to_list([k \in 1..Len(users) |-> WithoutPassword(users[k])],
                          USERS_LIST_LENGTH))

\* main.py 1251-1258: FALLBACK_USERS.items() in insertion order, which is the
\* order of the numbers in the ids
FallbackEntries(fb) ==
    [k \in 1..Cardinality(DOMAIN fb) |->
        LET e == CHOOSE e \in DOMAIN fb : fb[e].id = UserPrefix \o str_int(k)
        IN  [id |-> fb[e].id, name |-> fb[e].name, email |-> fb[e].email,
             source |-> "Fallback"]]

\* main.py 1241-1265, r being what execute_with_retry gave in the store branch
\* (None when the branch is skipped)
AllUsersResponse(r, fb) ==
    LET mongo_users == IF r # None /\ ~r.raised THEN r.value ELSE <<>>
        listed == [k \in 1..Len(mongo_users) |->
                      [f \in DOMAIN mongo_users[k] \cup {"source"} |->
                          IF f = "source" THEN "MongoDB"
                          ELSE IF f = "_id" THEN str(mongo_users[k]._id)
                          ELSE mongo_users[k][f]]]
        all == listed \o FallbackEntries(fb)
    IN  [total_users |-> Len(all), database_connected |-> DB_CONNECTED,
         mongodb_available |-> MONGODB_AVAILABLE, users |-> all]

(***************************************************************************)
(* The handlers that only read the store, as coroutines: a handler runs up *)
(* to its first store call, every awaited store call is a step of its own  *)
(* (other requests and scripts run in between, and during the sleep of     *)
(* execute_with_retry), and the response is built in the step of the last  *)
(* store call.  A handler that skips its store branch answers at once.     *)
(***************************************************************************)
\* what the reading handlers leave alone
ReaderFrame ==
    UNCHANGED <<connVars, seeding, phase, MONGODB_AVAILABLE, DB_CONNECTED, database,
                storeUp, flips, users, FALLBACK_USERS, products, now, procs, okRegs>>

\* the invocations of the handler's operation that execute_with_retry made
Attempts(r) == IF r = None THEN 0 ELSE r.calls

\* the response of the handler of coroutine rd, r being what execute_with_retry
\* gave in its store branch (None when the branch was skipped)
Response(rd, r) ==
    CASE rd.op = "login" ->
             LET resp == LoginResponse(rd.request, r, FALLBACK_USERS, now)
             IN  [op |-> "login", request |-> rd.request, at |-> now,
                  status |-> resp.status, token |-> resp.token, user |-> resp.user,
                  calls |-> Attempts(r)]
      [] rd.op = "me" ->
             LET resp == IF rd.payload = None
                         THEN [status |-> 401, user |-> None]
                         ELSE CurrentUserResponse(rd.payload, r, FALLBACK_USERS)
             IN  [op |-> "me", route |-> rd.route, credentials |-> rd.credentials,
                  verified |-> rd.verified, at |-> now,
                  status |-> resp.status, user |-> resp.user, calls |-> Attempts(r)]
      [] rd.op = "get_products" ->
             [op |-> "get_products", at |-> now, status |-> 200,
              fetched |-> r # None /\ ~r.raised, seen |-> rd.seen,
              body |-> ProductsResponse(r), calls |-> Attempts(r)]
      [] rd.op = "get_product" ->
             LET resp == ProductResponse(rd.product_id, r)
             IN  [op |-> "get_product", at |-> now, product_id |-> rd.product_id,
                  status |-> resp.status, body |-> resp.body, calls |-> Attempts(r)]
      [] rd.op = "get_all_users" ->
             [op |-> "get_all_users", at |-> now, status |-> 200,
              body |-> AllUsersResponse(r, FALLBACK_USERS), calls |-> Attempts(r)]

\* the handler of coroutine rd returns its response
ReaderRespond(rd, r) ==
    /\ reader' = IdleReader
    /\ last' = Response(rd, r)

\* the handler enters its store branch when the service is in store mode, and
\* answers from the fallback data otherwise
ReaderStart(rd) ==
    IF StoreMode
    THEN /\ reader' = rd
         /\ UNCHANGED last
    ELSE ReaderRespond(rd, None)

\* an invocation of the operation of coroutine rd ended with outcome o
ReaderAfterAttempt(rd, o) ==
    LET step == RetryStep(o, rd.attempt, MAX_RETRIES)
    IN  IF step.done
        THEN ReaderRespond(rd, step.result)
        ELSE /\ reader' = [rd EXCEPT !.attempt = @ + 1, !.pc = "store"]
             /\ UNCHANGED last

\* main.py 1139-1153: the request arrives
login_user(request) ==
    /\ phase = "running"
    /\ reader.pc = "idle"
    /\ LET rd == [pc |-> "store", op |-> "login", request |-> request, attempt |-> 0]
       IN  IF NormalizeEmail(request.email) = <<>> \/ request.password = <<>>
           THEN ReaderRespond(rd, None)
           ELSE ReaderStart(rd)
    /\ ReaderFrame

\* main.py 1157-1202: an awaited invocation of login_from_mongodb
await_login_from_mongodb ==
    /\ reader.pc = "store" /\ reader.op = "login"
    /\ ReaderAfterAttempt(reader,
           login_from_mongodb(NormalizeEmail(reader.request.email), storeUp))
    /\ ReaderFrame

\* main.py 814-833: the request of a protected route arrives with credentials
get_current_user(route, credentials) ==
    /\ phase = "running"
    /\ reader.pc = "idle"
    /\ LET payload == IF credentials = None THEN None
                      ELSE verify_token(credentials, now)
           rd == [pc |-> "store", op |-> "me", route |-> route,
                  credentials |-> credentials, payload |-> payload,
                  verified |-> now, attempt |-> 0]
       IN  IF payload = None
           THEN ReaderRespond(rd, None)
           ELSE ReaderStart(rd)
    /\ ReaderFrame

\* main.py 835-838: an invocation of find_user up to its first store call
await_find_user ==
    /\ reader.pc = "store" /\ reader.op = "me"
    /\ LET o == find_user(reader.payload.user_id, reader.payload.email, <<storeUp>>)
       IN  IF IsPending(o)
           THEN /\ reader' = [reader EXCEPT !.pc = "except"]
                /\ UNCHANGED last
           ELSE ReaderAfterAttempt(reader, o)
    /\ ReaderFrame

\* main.py 839-840: the store call of the except branch, after the first failed
await_find_user_except ==
    /\ reader.pc = "except" /\ reader.op = "me"
    /\ ReaderAfterAttempt(reader,
           find_user(reader.payload.user_id, reader.payload.email, <<FALSE, storeUp>>))
    /\ ReaderFrame

\* main.py 942-948
get_products ==
    /\ phase = "running"
    /\ reader.pc = "idle"
    /\ ReaderStart([pc |-> "store", op |-> "get_products", seen |-> <<>>, attempt |-> 0])
    /\ ReaderFrame

\* mutant: a failed fetch switches the service to fallback mode
await_fetch_products_switching ==
    /\ reader.pc = "store" /\ reader.op = "get_products"
    /\ LET o == fetch_products(storeUp)
       IN  /\ ReaderAfterAttempt(
                  [reader EXCEPT !.seen = IF o.raised THEN <<>> ELSE products], o)
           /\ DB_CONNECTED' = (DB_CONNECTED /\ ~o.raised)
    /\ UNCHANGED <<connVars, seeding, phase, MONGODB_AVAILABLE, database,
                   storeUp, flips, users, FALLBACK_USERS, products, now, procs, okRegs>>

\* main.py 950-970: an awaited invocation of fetch_products; seen is the
\* collection it read
await_fetch_products ==
    /\ reader.pc = "store" /\ reader.op = "get_products"
    /\ LET o == fetch_products(storeUp)
       IN  ReaderAfterAttempt(
               [reader EXCEPT !.seen = IF o.raised THEN <<>> ELSE products], o)
    /\ ReaderFrame

\* main.py 972-978
get_product(product_id) ==
    /\ phase = "running"
    /\ reader.pc = "idle"
    /\ ReaderStart([pc |-> "store", op |-> "get_product", product_id |-> product_id,
                    attempt |-> 0])
    /\ ReaderFrame

\* main.py 980-983: an invocation of fetch_single_product up to its first store
\* call
await_fetch_single_product ==
    /\ reader.pc = "store" /\ reader.op = "get_product"
    /\ LET o == fetch_single_product(reader.product_id, <<storeUp>>)
       IN  IF IsPending(o)
           THEN /\ reader' = [reader EXCEPT !.pc = "except"]
                /\ UNCHANGED last
           ELSE ReaderAfterAttempt(reader, o)
    /\ ReaderFrame

\* main.py 984-985: the store call of the except branch, after the first failed
await_fetch_single_product_except ==
    /\ reader.pc = "except" /\ reader.op = "get_product"
    /\ ReaderAfterAttempt(reader,
           fetch_single_product(reader.product_id, <<FALSE, storeUp>>))
    /\ ReaderFrame

\* main.py 1226-1233
get_all_users ==
    /\ phase = "running"
    /\ reader.pc = "idle"
    /\ ReaderStart([pc |-> "store", op |-> "get_all_users", attempt |-> 0])
    /\ ReaderFrame

\* main.py 1235-1265: an awaited invocation of fetch_mongo_users
await_fetch_mongo_users ==
    /\ reader.pc = "store" /\ reader.op = "get_all_users"
    /\ ReaderAfterAttempt(reader, fetch_mongo_users(storeUp))
    /\ ReaderFrame

(***************************************************************************)
(* The scripts that write the products collection: populate_db.py,         *)
(* megacart_backend/add_data.py and megacart_backend/scripts/              *)
(* add_sample_data.py.  Each awaits its store calls one after the other.   *)
(***************************************************************************)
\* runs of the scripts
MaxSeedRuns == 1

Scripts == {"populate_db", "add_data", "add_sample_data"}

\* the documents the script hands to insert_many, before the driver adds _id:
\* populate_db.py 5-501 (ids 1..45), add_data.py 12-25 (id 1),
\* scripts/add_sample_data.py 9-32 (two documents without id)
ScriptDocuments(script) ==
    CASE script = "populate_db" ->
             [k \in 1..NUM_POPULATED |-> [id |-> k, name |-> <<"store", k>>]]
      [] script = "add_data" -> <<[id |-> 1, name |-> <<"store", 1>>]>>
      [] script = "add_sample_data" ->
             <<[name |-> <<"unnumbered", 1>>], [name |-> <<"unnumbered", 2>>]>>

\* insert_many(docs): every document gets a new ObjectId
Inserted(docs, made) ==
    [k \in 1..Len(docs) |->
        [f \in DOMAIN docs[k] \cup {"_id"} |->
            IF f = "_id" THEN NewObjectId(made + k) ELSE docs[k][f]]]

\* the script starts; populate_db.py and add_data.py first clear the collection
script_start(script) ==
    /\ seeding.pc = "idle"
    /\ seeding.runs < MaxSeedRuns
    /\ seeding' = [seeding EXCEPT
                      !.pc = IF script = "add_sample_data"
                             THEN "insert_many" ELSE "delete_many",
                      !.script = script, !.runs = @ + 1]
    /\ UNCHANGED <<connVars, reader, phase, MONGODB_AVAILABLE, DB_CONNECTED, database,
                   storeUp, flips, users, FALLBACK_USERS, products, now, procs, okRegs,
                   last>>

\* populate_db.py 508, add_data.py 9: await db.products.delete_many({}); the
\* script ends with the exception when the store does not answer
script_delete_many ==
    /\ seeding.pc = "delete_many"
    /\ IF storeUp
       THEN /\ products' = <<>>
            /\ seeding' = [seeding EXCEPT !.pc = "insert_many"]
       ELSE /\ products' = products
            /\ seeding' = [seeding EXCEPT !.pc = "idle", !.script = ""]
    /\ UNCHANGED <<connVars, reader, phase, MONGODB_AVAILABLE, DB_CONNECTED, database,
                   storeUp, flips, users, FALLBACK_USERS, now, procs, okRegs, last>>

\* populate_db.py 511, add_data.py 27, scripts/add_sample_data.py 35:
\* await db.products.insert_many(...)
script_insert_many ==
    /\ seeding.pc = "insert_many"
    /\ IF storeUp
       THEN LET docs == ScriptDocuments(seeding.script)
            IN  /\ products' = products \o Inserted(docs, seeding.made)
                /\ seeding' = [seeding EXCEPT !.pc = "idle", !.script = "",
                                              !.made = @ + Len(docs)]
       ELSE /\ products' = products
            /\ seeding' = [seeding EXCEPT !.pc = "idle", !.script = ""]
    /\ UNCHANGED <<connVars, reader, phase, MONGODB_AVAILABLE, DB_CONNECTED, database,
                   storeUp, flips, users, FALLBACK_USERS, now, procs, okRegs, last>>

(***************************************************************************)
(* The code that writes the users collection besides register_user:        *)
(* megacart_backend/simple_mongo_test.py, megacart_backend/debug_auth.py   *)
(* and register of megacart_backend/routers/auth.py.  Each awaits its      *)
(* store calls one after the other.  The two scripts work on connections   *)
(* of their own: simple_mongo_test.py makes its client (lines 40, 144) and *)
(* debug_auth.py imports database.mongodb (line 21), a module object other *)
(* than the megacart_backend.database.mongodb of main.py 19, so that its   *)
(* connect_to_mongo and close_mongo_connection leave the client and the    *)
(* database of the service alone.                                          *)
(***************************************************************************)
UserScripts == {"test_mongodb_simple", "debug_mongodb", "simple_mongo_test_cleanup",
                "debug_auth_cleanup", "routers_auth_register"}

CleanupScripts == {"simple_mongo_test_cleanup", "debug_auth_cleanup"}

\* the scripts that name their test user after the time of the run
StampedScripts == {"test_mongodb_simple", "debug_mongodb"}

\* the request body of the register of routers/auth.py
RouterUserCreate == [name |-> NameAl, email |-> EmailRouter, password |-> PwSecret]

\* the document the script hands to insert_one, before the driver adds _id:
\* simple_mongo_test.py 74-80, debug_auth.py 86-92, routers/auth.py 116-122
\* (time stamps left out as in the documents of register_user)
UserScriptDocument(script, stamp) ==
    CASE script = "test_mongodb_simple" ->
             [name |-> NameTestUser, email |-> EmailTestSimple(stamp),
              password |-> hash_password(PwTestpass123)]
      [] script = "debug_mongodb" ->
             [name |-> NameTestUser, email |-> EmailTestDebug(stamp),
              password |-> hash_password(PwTestpassword123)]
      [] script = "routers_auth_register" ->
             [name |-> RouterUserCreate.name, email |-> RouterUserCreate.email,
              hashed_password |-> get_password_hash(RouterUserCreate.password),
              is_active |-> TRUE]

\* the ends at which "$" matches: the end of the text and the place before its
\* final newline
RegexEnds(s) ==
    {s} \cup (IF s # <<>> /\ s[Len(s)] = "\n" THEN {SubSeq(s, 1, Len(s) - 1)} ELSE {})

\* the text matches the regular expression ^prefix.*suffix$, "." being any
\* character but a newline
RegexMatch(s, prefix, suffix) ==
    \E t \in RegexEnds(s) :
        /\ Len(t) >= Len(prefix) + Len(suffix)
        /\ StartsWith(t, prefix)
        /\ SubSeq(t, Len(t) - Len(suffix) + 1, Len(t)) = suffix
        /\ \A i \in (Len(prefix) + 1)..(Len(t) - Len(suffix)) : t[i] # "\n"

\* simple_mongo_test.py 147-149: {"email": {"$regex": "^test_.*@test\\.com$"}};
\* debug_auth.py 160-162: {"email": {"$regex": "^test_user_.*@example\\.com$"}}
CleanupMatches(script, doc) ==
    IF script = "simple_mongo_test_cleanup"
    THEN RegexMatch(doc.email, <<"t","e","s","t","_">>,
                    <<"@","t","e","s","t",".","c","o","m">>)
    ELSE RegexMatch(doc.email, <<"t","e","s","t","_","u","s","e","r","_">>,
                    <<"@","e","x","a","m","p","l","e",".","c","o","m">>)

\* delete_many(filter): the documents that stay
delete_many(coll, script) == SelectSeq(coll, LAMBDA doc : ~CleanupMatches(script, doc))

UserScriptFrame ==
    UNCHANGED <<connVars, reader, phase, MONGODB_AVAILABLE, DB_CONNECTED, database,
                storeUp, flips, FALLBACK_USERS, products, now, procs, okRegs, last>>

\* the script or the route starts, stamp being what datetime.now() gives the
\* test scripts (simple_mongo_test.py 69, debug_auth.py 84).  get_database
\* (routers/auth.py 98) raises when the service has no database
user_script_start(script, stamp) ==
    /\ seeding.pc = "idle"
    /\ seeding.runs < MaxSeedRuns
    /\ seeding' = IF script = "routers_auth_register" /\ database = None
                  THEN [seeding EXCEPT !.runs = @ + 1]
                  ELSE [seeding EXCEPT
                           !.pc = IF script \in CleanupScripts
                                  THEN "users_delete_many" ELSE "users_find_one",
                           !.script = script, !.runs = @ + 1,
                           !.stamp = IF script \in StampedScripts
                                     THEN stamp ELSE <<>>]
    /\ users' = users
    /\ UserScriptFrame

\* simple_mongo_test.py 72, debug_auth.py 95, routers/auth.py 101:
\* await ...users.find_one({"email": email}); a document found, like a store
\* that does not answer, ends the run without an insert, and so does a password
\* shorter than 6 in routers/auth.py 109-113
script_users_find_one ==
    /\ seeding.pc = "users_find_one"
    /\ seeding' =
           IF /\ storeUp
              /\ find_one_email(users, UserScriptDocument(seeding.script,
                                                          seeding.stamp).email) = None
              /\ ~(seeding.script = "routers_auth_register"
                   /\ Len(RouterUserCreate.password) < 6)
           THEN [seeding EXCEPT !.pc = "users_insert_one"]
           ELSE [seeding EXCEPT !.pc = "idle", !.script = "", !.stamp = <<>>]
    /\ users' = users
    /\ UserScriptFrame

\* simple_mongo_test.py 82, debug_auth.py 100, routers/auth.py 125:
\* await ...users.insert_one(document)
script_users_insert_one ==
    /\ seeding.pc = "users_insert_one"
    /\ users' = IF storeUp
                THEN users \o Inserted(<<UserScriptDocument(seeding.script,
                                                            seeding.stamp)>>,
                                       Len(users) + seeding.removed)
                ELSE users
    /\ seeding' = [seeding EXCEPT !.pc = "idle", !.script = "", !.stamp = <<>>]
    /\ UserScriptFrame

\* simple_mongo_test.py 147, debug_auth.py 160: await db.users.delete_many(...)
script_users_delete_many ==
    /\ seeding.pc = "users_delete_many"
    /\ users' = IF storeUp THEN delete_many(users, seeding.script) ELSE users
    /\ seeding' = [seeding EXCEPT !.pc = "idle", !.script = "",
                                  !.removed = @ + Len(users) - Len(users')]
    /\ UserScriptFrame


\* the 24 hex digits of the first store document's _id, and in upper case
HexOfFirst == NewObjectId(1)[2]

\* the _id of the tenth store document, written with an upper-case digit
HexOfTenthUpper == [k \in 1..ObjectIdHexLen |-> IF k = ObjectIdHexLen THEN "A" ELSE "0"]

\* 24 decimal digits: a valid ObjectId and the number 1
HexAndNumber == [k \in 1..ObjectIdHexLen |-> IF k = ObjectIdHexLen THEN "1" ELSE "0"]

\* 24 characters, eight pairs of hex digits each followed by a space: ObjectId
\* takes them for the eight bytes zero, the _id of no document
HexSpaced == [k \in 1..ObjectIdHexLen |-> IF k % 3 = 0 THEN " " ELSE "0"]

\* the ids requested of GET /api/products/{product_id}
ProductIds ==
    { <<"1">>, <<"7","0">>, <<"6","4">>, <<" ","7"," ">>,
      <<"1","_","0">>, <<"1","2","a">>,
      HexOfFirst, HexOfTenthUpper, HexAndNumber, HexSpaced }

Next ==
    \/ \E course \in StartupCourses : \E ups \in StoreHistories(MAX_FORMATS + 2) :
           startup_db_client_with(course.direct, course.outcomes, ups)
    \/ \E close_raises \in BOOLEAN : shutdown_db_client(close_raises)
    \/ StoreFlip(MaxFlips)
    \/ \E p \in Procs : \E request \in RegisterRequests : register_user(p, request)
    \/ \E p \in Procs : register_find_one(p)
    \/ \E p \in Procs : register_insert_one(p)
    \/ \E p \in Procs : register_insert_one_unacknowledged(p, MaxFlips)

\* concurrent registrations of one email; an insert may take effect and raise
Spec == Init /\ [][Next]_vars

NextSession ==
    \/ \E course \in StartupCourses : \E ups \in StoreHistories(MAX_FORMATS + 2) :
           startup_db_client_with(course.direct, course.outcomes, ups)
    \/ \E close_raises \in BOOLEAN : shutdown_db_client(close_raises)
    \/ StoreFlip(MaxSessionFlips)
    \/ \E request \in SessionRegisterRequests : register_user(1, request)
    \/ register_find_one(1)
    \/ register_insert_one(1)
    \/ \E request \in LoginRequests : login_user(request)
    \/ await_login_from_mongodb
    \/ \E route \in ProtectedRoutes : \E credentials \in Credentials :
           get_current_user(route, credentials)
    \/ await_find_user
    \/ await_find_user_except

\* one client sending its requests one after the other; every store call either
\* takes effect and returns, or raises without effect
SpecSession == Init /\ [][NextSession]_vars

\* a client with one registered email, while time passes.  The store changes
\* while the service starts, not after: a token that names a store document is
\* then issued and presented over a store that answers, so that the first
\* store call of find_user does not fail and its except branch is not entered
ExpiryRegisterRequests == { [name |-> NameAl, email |-> EmailA, password |-> PwSecret] }

ExpiryLoginRequests == { [email |-> EmailAUpper, password |-> PwSecret] }

NextExpiry ==
    \/ \E course \in StartupCourses : \E ups \in StoreHistories(MAX_FORMATS + 2) :
           startup_db_client_with(course.direct, course.outcomes, ups)
    \/ \E close_raises \in BOOLEAN : shutdown_db_client(close_raises)
    \/ \E t \in ClockValues : Tick(t)
    \/ \E request \in ExpiryRegisterRequests : register_user(1, request)
    \/ register_find_one(1)
    \/ register_insert_one(1)
    \/ \E request \in ExpiryLoginRequests : login_user(request)
    \/ await_login_from_mongodb
    \/ \E route \in ProtectedRoutes : \E credentials \in Credentials :
           get_current_user(route, credentials)
    \/ await_find_user

SpecExpiry == Init /\ [][NextExpiry]_vars

\* the catalog routes, over each products collection of ProductCollections
\* add_data.py runs beside the lookups; all three scripts run beside the listing
CatalogScripts == {"add_data"}

InitCatalog ==
    /\ phase = "init"
    /\ MONGODB_AVAILABLE \in BOOLEAN
    /\ DB_CONNECTED = FALSE
    /\ database = None
    /\ storeUp \in BOOLEAN
    /\ flips = 0
    /\ users = <<>>
    /\ FALLBACK_USERS = [e \in {} |-> None]
    /\ products \in ProductCollections
    /\ now = 0
    /\ procs = [p \in Procs |-> IdleProc]
    /\ reader = IdleReader
    /\ seeding = NoSeeding(Len(products))
    /\ okRegs = {}
    /\ last = [op |-> "none"]
    /\ CATEGORIES = CategoryList
    /\ MONGODB_URL = UrlPlain
    /\ client = None
    /\ clients = <<>>
    /\ boot = NoBoot

NextCatalog ==
    \/ \E course \in StartupCourses : \E ups \in StoreHistories(MAX_FORMATS + 2) :
           startup_db_client_with(course.direct, course.outcomes, ups)
    \/ \E close_raises \in BOOLEAN : shutdown_db_client(close_raises)
    \/ StoreFlip(MaxSessionFlips)
    \/ get_products
    \/ await_fetch_products
    \/ \E product_id \in ProductIds : get_product(product_id)
    \/ await_fetch_single_product
    \/ await_fetch_single_product_except
    \/ \E script \in CatalogScripts : script_start(script)
    \/ script_delete_many
    \/ script_insert_many

SpecCatalog == InitCatalog /\ [][NextCatalog]_vars

\* the listing route alone, over each products collection of ListingCollections
InitListing ==
    /\ phase = "init"
    /\ MONGODB_AVAILABLE \in BOOLEAN
    /\ DB_CONNECTED = FALSE
    /\ database = None
    /\ storeUp \in BOOLEAN
    /\ flips = 0
    /\ users = <<>>
    /\ FALLBACK_USERS = [e \in {} |-> None]
    /\ products \in ListingCollections
    /\ now = 0
    /\ procs = [p \in Procs |-> IdleProc]
    /\ reader = IdleReader
    /\ seeding = NoSeeding(Len(products))
    /\ okRegs = {}
    /\ last = [op |-> "none"]
    /\ CATEGORIES = CategoryList
    /\ MONGODB_URL = UrlPlain
    /\ client = None
    /\ clients = <<>>
    /\ boot = NoBoot

NextListing ==
    \/ \E course \in StartupCourses : \E ups \in StoreHistories(MAX_FORMATS + 2) :
           startup_db_client_with(course.direct, course.outcomes, ups)
    \/ \E close_raises \in BOOLEAN : shutdown_db_client(close_raises)
    \/ StoreFlip(MaxFlips)
    \/ get_products
    \/ await_fetch_products
    \/ \E script \in Scripts : script_start(script)
    \/ script_delete_many
    \/ script_insert_many

SpecListing == InitListing /\ [][NextListing]_vars

\* calls of the retry wrapper alone
NextRetry ==
    /\ last.op = "none"
    /\ \E outcomes \in Operations : \E max_retries \in RetryLimits :
           \E delay \in RetryDelays : retry_call(outcomes, max_retries, delay)

SpecRetry == Init /\ [][NextRetry]_vars

\* startup in every environment: the connection string set or not and well
\* formed or not, the direct test passing or not, each format meeting each
\* fate; then requests, changes of the store and shutdown
ConnectionStrings == {None, UrlPlain, UrlWithQuery, UrlNoCredentials}

DirectTests == [ok : BOOLEAN, took : {0, DIRECT_TIMEOUT}]

InitConnect ==
    /\ phase = "init"
    /\ MONGODB_AVAILABLE \in BOOLEAN
    /\ DB_CONNECTED = FALSE
    /\ database = None
    /\ storeUp \in BOOLEAN
    /\ flips = 0
    /\ users = <<>>
    /\ FALLBACK_USERS = [e \in {} |-> None]
    /\ products = MakeProducts(<<1, 70>>)
    /\ now = 0
    /\ procs = [p \in Procs |-> IdleProc]
    /\ reader = IdleReader
    /\ seeding = NoSeeding(Len(products))
    /\ okRegs = {}
    /\ last = [op |-> "none"]
    /\ CATEGORIES = CategoryList
    /\ MONGODB_URL \in ConnectionStrings
    /\ client = None
    /\ clients = <<>>
    /\ boot = NoBoot

NextConnect ==
    \/ \E direct \in DirectTests : \E outcomes \in [1..MAX_FORMATS -> AttemptKinds] :
           \E ups \in StoreHistories(MAX_FORMATS + 2) :
               startup_db_client_with(direct, outcomes, ups)
    \/ \E close_raises \in BOOLEAN : shutdown_db_client(close_raises)
    \/ StoreFlip(MaxFlips)
    \/ get_products
    \/ await_fetch_products

SpecConnect == InitConnect /\ [][NextConnect]_vars

\* every route of the service, over a store that holds products or none
ServiceProductCollections == {<<>>, MakeProducts(<<1, 70>>)}

ServiceProductIds == {<<"1">>, <<"7","0">>, <<"a","b","c">>, HexAndNumber}

InitService ==
    /\ phase = "init"
    /\ MONGODB_AVAILABLE \in BOOLEAN
    /\ DB_CONNECTED = FALSE
    /\ database = None
    /\ storeUp \in BOOLEAN
    /\ flips = 0
    /\ users = <<>>
    /\ FALLBACK_USERS = [e \in {} |-> None]
    /\ products \in ServiceProductCollections
    /\ now = 0
    /\ procs = [p \in Procs |-> IdleProc]
    /\ reader = IdleReader
    /\ seeding = NoSeeding(Len(products))
    /\ okRegs = {}
    /\ last = [op |-> "none"]
    /\ CATEGORIES = CategoryList
    /\ MONGODB_URL = UrlPlain
    /\ client = None
    /\ clients = <<>>
    /\ boot = NoBoot

NextService ==
    \/ \E course \in StartupCourses : \E ups \in StoreHistories(MAX_FORMATS + 2) :
           startup_db_client_with(course.direct, course.outcomes, ups)
    \/ \E close_raises \in BOOLEAN : shutdown_db_client(close_raises)
    \/ StoreFlip(MaxFlips)
    \/ \E request \in ExpiryRegisterRequests : register_user(1, request)
    \/ register_find_one(1)
    \/ register_insert_one(1)
    \/ \E request \in ExpiryLoginRequests : login_user(request)
    \/ await_login_from_mongodb
    \/ \E route \in ProtectedRoutes : \E credentials \in Credentials :
           get_current_user(route, credentials)
    \/ await_find_user
    \/ await_find_user_except
    \/ get_products
    \/ await_fetch_products
    \/ \E product_id \in ServiceProductIds : get_product(product_id)
    \/ await_fetch_single_product
    \/ await_fetch_single_product_except
    \/ get_categories
    \/ get_all_users
    \/ await_fetch_mongo_users

SpecService == InitService /\ [][NextService]_vars

\* the users collection as earlier runs of the test scripts left it
AccountCollections ==
    {Inserted(<<UserScriptDocument("test_mongodb_simple", StampEarlier),
                UserScriptDocument("debug_mongodb", StampEarlier)>>, 0)}

AccountLoginRequests ==
    { [email |-> EmailAUpper, password |-> PwSecret],
      [email |-> EmailA, password |-> PwHunter2],
      [email |-> EmailTestSimple(StampEarlier), password |-> PwTestpass123],
      [email |-> EmailRouter, password |-> PwSecret],
      [email |-> EmailA, password |-> PwEmpty],
      [email |-> EmailBlank, password |-> PwSecret] }

InitAccounts ==
    /\ phase = "init"
    /\ MONGODB_AVAILABLE \in BOOLEAN
    /\ DB_CONNECTED = FALSE
    /\ database = None
    /\ storeUp \in BOOLEAN
    /\ flips = 0
    /\ users \in AccountCollections
    /\ FALLBACK_USERS = [e \in {} |-> None]
    /\ products = <<>>
    /\ now = 0
    /\ procs = [p \in Procs |-> IdleProc]
    /\ reader = IdleReader
    /\ seeding = NoSeeding(0)
    /\ okRegs = {}
    /\ last = [op |-> "none"]
    /\ CATEGORIES = CategoryList
    /\ MONGODB_URL = UrlPlain
    /\ client = None
    /\ clients = <<>>
    /\ boot = NoBoot

\* the service with the accounts the test scripts and the router make and
\* remove; the store changes while the service starts, not after
NextAccounts ==
    \/ \E course \in StartupCourses : \E ups \in StoreHistories(MAX_FORMATS + 2) :
           startup_db_client_with(course.direct, course.outcomes, ups)
    \/ \E close_raises \in BOOLEAN : shutdown_db_client(close_raises)
    \/ \E request \in ExpiryRegisterRequests : register_user(1, request)
    \/ register_find_one(1)
    \/ register_insert_one(1)
    \/ \E request \in AccountLoginRequests : login_user(request)
    \/ await_login_from_mongodb
    \/ get_all_users
    \/ await_fetch_mongo_users
    \/ \E script \in UserScripts : \E stamp \in TestStamps :
           user_script_start(script, stamp)
    \/ script_users_find_one
    \/ script_users_insert_one
    \/ script_users_delete_many

SpecAccounts == InitAccounts /\ [][NextAccounts]_vars

\* the same service and accounts, the client only registering and logging in
NextLogin ==
    \/ \E course \in StartupCourses : \E ups \in StoreHistories(MAX_FORMATS + 2) :
           startup_db_client_with(course.direct, course.outcomes, ups)
    \/ \E close_raises \in BOOLEAN : shutdown_db_client(close_raises)
    \/ \E request \in ExpiryRegisterRequests : register_user(1, request)
    \/ register_find_one(1)
    \/ register_insert_one(1)
    \/ \E request \in AccountLoginRequests : login_user(request)
    \/ await_login_from_mongodb
    \/ \E script \in UserScripts : \E stamp \in TestStamps :
           user_script_start(script, stamp)
    \/ script_users_find_one
    \/ script_users_insert_one
    \/ script_users_delete_many

SpecLogin == InitAccounts /\ [][NextLogin]_vars

\* the users collection before the service starts: empty, or holding the user
\* that a registration with an earlier run of the service stored
RegisterCollections ==
    {<<>>, Inserted(<<NewUserData([name |-> NameAl, email |-> EmailA,
                                   password |-> PwSecret])>>, 0)}

InitRegister ==
    /\ phase = "init"
    /\ MONGODB_AVAILABLE \in BOOLEAN
    /\ DB_CONNECTED = FALSE
    /\ database = None
    /\ storeUp \in BOOLEAN
    /\ flips = 0
    /\ users \in RegisterCollections
    /\ FALLBACK_USERS = [e \in {} |-> None]
    /\ products = <<>>
    /\ now = 0
    /\ procs = [p \in Procs |-> IdleProc]
    /\ reader = IdleReader
    /\ seeding = NoSeeding(Len(products))
    /\ okRegs = {}
    /\ last = [op |-> "none"]
    /\ CATEGORIES = CategoryList
    /\ MONGODB_URL = UrlPlain
    /\ client = None
    /\ clients = <<>>
    /\ boot = NoBoot

\* one client registering, over a store whose acknowledgement of an insert may
\* be lost and which may come back before the retry
NextRegister ==
    \/ \E course \in StartupCourses : \E ups \in StoreHistories(MAX_FORMATS + 2) :
           startup_db_client_with(course.direct, course.outcomes, ups)
    \/ \E close_raises \in BOOLEAN : shutdown_db_client(close_raises)
    \/ StoreFlip(MaxSessionFlips)
    \/ \E request \in RegisterRequests \cup SessionRegisterRequests :
           register_user(1, request)
    \/ register_find_one(1)
    \/ register_insert_one(1)
    \/ register_insert_one_unacknowledged(1, MaxSessionFlips)

SpecRegister == InitRegister /\ [][NextRegister]_vars

(***************************************************************************)
(* Properties.                                                             *)
(***************************************************************************)
\* every user record held, in the store or in FALLBACK_USERS
StoredUsers ==
    {users[i] : i \in 1..Len(users)} \cup {FALLBACK_USERS[e] : e \in DOMAIN FALLBACK_USERS}

\* how many records the store and FALLBACK_USERS hold for email e
RecordsFor(e) ==
    Cardinality({i \in 1..Len(users) : users[i].email = e})
    + (IF e \in DOMAIN FALLBACK_USERS THEN 1 ELSE 0)

\* the request fails one of the three validations, in the words of the claim
FailsValidation(request) ==
    \/ Len(strip(request.name)) < 2
    \/ ~Contains(request.email, "@")
    \/ Len(request.password) < 6

\* C1, for the registrations that pass validation: while the store's
\* availability has not changed, a registration whose normalized email belonged
\* to a stored user (of the users collection or of FALLBACK_USERS) when it
\* arrived is answered 400 and stores no record.
C1_ValidDuplicateRejected ==
    (last.op = "register" /\ flips = 0 /\ last.dupAtStart
     /\ ~FailsValidation(last.request))
        => (last.status = 400 /\ last.stored = <<>>)

\* C2: while the store is connected and reachable, concurrent registrations of
\* one email leave at most one record for it in the users collection and at most
\* one of them is answered with success.
C2_OneRecordPerEmailUnderRace ==
    (DB_CONNECTED /\ flips = 0)
        => \A e \in StoreEmails :
               /\ Cardinality({i \in 1..Len(users) : users[i].email = e}) <= 1
               /\ Cardinality({r \in okRegs : r.email = e}) <= 1

\* C3: there is at most one user record per email, counting the users collection
\* and FALLBACK_USERS together.
C3_OneRecordPerEmail == \A e \in StoredEmails : RecordsFor(e) <= 1

\* C4: a request failing a validation is answered 422, stores no user, contacts
\* no store and gets no token.
C4_ValidationRejects ==
    (last.op = "register" /\ FailsValidation(last.request))
        => /\ last.status = 422
           /\ last.stored = <<>>
           /\ ~last.contacted
           /\ last.token = None

C4_Witness ==
    /\ last.op = "register"
    /\ last.request.name = NameBlankA
    /\ DB_CONNECTED /\ storeUp
    /\ last.status = 422

\* C5: a registration answered with success stored exactly one record, holding
\* the hash of the password and the normalized email, and its token carries that
\* record's id and email.
C5_SuccessStoresOne ==
    (last.op = "register" /\ last.status = 200)
        => /\ Len(last.stored) = 1
           /\ last.stored[1] \in StoredUsers
           /\ last.stored[1].password = hash_password(last.request.password)
           /\ last.stored[1].password # last.request.password
           /\ last.stored[1].email = strip(lower(last.request.email))
           /\ last.token.payload.user_id = str(last.stored[1]._id)
           /\ last.token.payload.email = last.stored[1].email

\* some stored user has the request's normalized email and the hash of its password
LoginMatches(request) ==
    LET email == strip(lower(request.email))
        hashed == hash_password(request.password)
    IN  \E u \in StoredUsers :
            /\ u.email = email
            /\ "password" \in DOMAIN u
            /\ u.password = hashed

\* a step of login_user: a step of the reader while it serves a login, or a
\* login answered at once
LoginStep ==
    \/ /\ reader' # reader
       /\ \/ (reader.pc # "idle" /\ reader.op = "login")
          \/ (reader'.pc # "idle" /\ reader'.op = "login")
    \/ /\ reader.pc = "idle" /\ reader'.pc = "idle"
       /\ last' # last /\ last'.op = "login"

\* the step in which login_user answers
LoginResponds == LoginStep /\ reader'.pc = "idle"

\* C6 as stated: a login gets a token only if a stored user matches, and a login
\* that matches no stored user is answered 401.
C6_NoMatchIs401 ==
    [][LoginResponds
         => (/\ (last.token # None) => LoginMatches(last.request)
             /\ ~LoginMatches(last.request) => last.status = 401)']_vars

\* the answer of a login against the users stored when it is given
LoginAnswerSound ==
    /\ (last.token # None) => LoginMatches(last.request)
    /\ ~LoginMatches(last.request)
         => last.status = IF strip(lower(last.request.email)) = <<>>
                             \/ last.request.password = <<>>
                          THEN 422 ELSE 401

\* C6 amended: a login gets a token only if a stored user matches; a login that
\* matches no stored user is answered 401 when its normalized email and its
\* password are both non-empty, and 422 when one of them is empty; no login
\* changes the stored users.
C6_LoginSound ==
    [][/\ LoginResponds => LoginAnswerSound'
       /\ LoginStep => (users' = users /\ FALLBACK_USERS' = FALLBACK_USERS)]_vars

C6_Witness ==
    /\ last.op = "login"
    /\ last.request.password = PwHunter2
    /\ strip(lower(last.request.email)) \in StoreEmails
    /\ ~LoginMatches(last.request)
    /\ last.status = 401

\* C7: get_current_user answers 401 without credentials or with a token that
\* fails verification, and the record it returns has the id of the token's
\* payload.
C7_ReturnsTokenUser ==
    (last.op = "me")
        => /\ (last.credentials = None
                  \/ verify_token(last.credentials, last.verified) = None)
                => last.status = 401
           /\ last.status \in {200, 401}
           /\ last.status = 200 => last.user.id = last.credentials.payload.user_id

\* C8: a token issued at time t expires at t + 30 days; presented at or after its
\* expiry, or not signed by the service, it is answered 401 without a user
\* record, so a protected route accepts it only before t + 30 days.
C8_ExpiredTokenRejected ==
    /\ (last.op \in {"register", "login"} /\ last.token # None)
           => last.token.payload.exp = last.at + 30
    /\ (last.op = "me" /\ last.credentials # None)
           => /\ last.verified >= last.credentials.payload.exp
                  => (last.status = 401 /\ last.user = None)
              /\ last.credentials.sig # <<"HS256", JWT_SECRET, last.credentials.payload>>
                  => (last.status = 401 /\ last.user = None)

C8_Witness ==
    /\ last.op = "me"
    /\ last.route = "/api/profile"
    /\ last.credentials # None
    /\ Genuine(last.credentials)
    /\ last.verified = last.credentials.payload.exp
    /\ last.credentials.payload.email \in StoredEmails
    /\ last.status = 401

\* C9 as stated: get_products answers 200 with the store's products collection
\* (as the fetch read it) when the store branch fetched at least one product,
\* and with SAMPLE_PRODUCTS otherwise.
C9_WholeCollectionOrSample ==
    (last.op = "get_products")
        => /\ last.status = 200
           /\ last.body =
                IF last.fetched /\ Len(last.seen) > 0
                THEN [k \in 1..Len(last.seen) |-> [last.seen[k] EXCEPT !._id = @[2]]]
                ELSE SAMPLE_PRODUCTS

\* the entry has the requested identifier: its numeric id is the number the
\* request spells, or its store object id is the one the request spells
HasRequestedId(entry, product_id) ==
    \/ /\ int(product_id).ok
       /\ "id" \in DOMAIN entry
       /\ entry.id = int(product_id).val
    \/ /\ "_id" \in DOMAIN entry
       /\ Len(product_id) = 24
       /\ entry._id = lower(product_id)

\* C10: get_product answers with an entry that has the requested identifier, or
\* with 404; never with another entry, never with a 5xx.
C10_RequestedEntryOr404 ==
    (last.op = "get_product")
        => /\ last.status \in {200, 404}
           /\ last.status = 200 => HasRequestedId(last.body, last.product_id)
           /\ last.status = 404 => last.body = None

C10_Witness ==
    /\ last.op = "get_product"
    /\ last.product_id = <<"1","2","a">>
    /\ DB_CONNECTED /\ storeUp /\ Len(products) > 0
    /\ last.status = 404

\* C11: in every reachable state CATEGORIES is the fixed list of main.py 74, and
\* GET /api/categories/ answers 200 with exactly that list, whatever the store's
\* connectivity and contents and whatever was requested before.
C11_CategoriesFixed ==
    /\ CATEGORIES = <<"Electronics", "Clothing", "Books", "Home", "Sports", "Beauty">>
    /\ (last.op = "get_categories")
           => /\ last.status = 200
              /\ last.body = <<"Electronics", "Clothing", "Books", "Home", "Sports", "Beauty">>

C11_Witness ==
    /\ last.op = "get_categories"
    /\ DB_CONNECTED /\ ~storeUp
    /\ Len(users) > 0 /\ Len(products) > 0
    /\ last.body = CATEGORIES

\* the attempts before the k-th all raised
AllRaisedBefore(outcomes, k) == \A j \in 1..(k - 1) : outcomes[j].raised

\* C12: with max_retries >= 1 the operation is invoked at least once and at most
\* max_retries times; the invocations stop at the first one that does not raise,
\* and the call returns that invocation's result.
C12_StopsAtFirstSuccess ==
    (last.op = "execute_with_retry" /\ last.max_retries >= 1)
        => LET r == last.result
               o == last.outcomes
           IN  /\ r.calls \in 1..last.max_retries
               /\ AllRaisedBefore(o, r.calls)
               /\ ~o[r.calls].raised => (~r.raised /\ r.value = o[r.calls].value)
               /\ o[r.calls].raised => r.calls = last.max_retries
               /\ ~r.raised => ~o[r.calls].raised

C12_Witness ==
    /\ last.op = "execute_with_retry"
    /\ last.max_retries = 3
    /\ last.outcomes[1].raised /\ ~last.outcomes[2].raised /\ last.outcomes[3].raised
    /\ last.outcomes[2].value # None
    /\ last.result.calls = 2
    /\ last.result.value = last.outcomes[2].value

RECURSIVE Pow2(_)
Pow2(n) == IF n <= 0 THEN 1 ELSE 2 * Pow2(n - 1)

\* C13: a call that made n >= 1 attempts waited n - 1 times, once between every
\* two consecutive attempts and not after the last, and the wait before attempt
\* k + 1 was delay * 2^(k-1).
C13_ExponentialBackoff ==
    (last.op = "execute_with_retry" /\ last.result.calls >= 1)
        => LET r == last.result
           IN  /\ Len(r.waits) = r.calls - 1
               /\ \A k \in 1..Len(r.waits) : r.waits[k] = last.delay * Pow2(k - 1)

C13_Witness ==
    /\ last.op = "execute_with_retry"
    /\ last.max_retries = 4 /\ last.delay = 500
    /\ \A k \in 1..4 : last.outcomes[k].raised
    /\ last.result.waits = <<500, 1000, 2000>>

\* C14 as stated: when all max_retries attempts raise, the call raises the
\* exception of the last attempt; it returns None only when max_retries <= 0,
\* and then the operation is never invoked.
C14_NoneOnlyWithoutAttempts ==
    (last.op = "execute_with_retry")
        => LET r == last.result
               o == last.outcomes
               n == last.max_retries
           IN  /\ (n >= 1 /\ \A k \in 1..n : o[k].raised)
                   => (r.raised /\ r.exc = o[n].exc)
               /\ (~r.raised /\ r.value = None) => n <= 0
               /\ n <= 0 => (r.calls = 0 /\ ~r.raised /\ r.value = None)

\* C14 amended: when all max_retries attempts raise, the call raises the
\* exception of the last attempt; it returns None only when max_retries <= 0,
\* and then the operation is never invoked, or when the attempt that succeeded
\* returned None itself.
C14_RaisesLastOrPassesResult ==
    (last.op = "execute_with_retry")
        => LET r == last.result
               o == last.outcomes
               n == last.max_retries
           IN  /\ (n >= 1 /\ \A k \in 1..n : o[k].raised)
                   => (r.raised /\ r.exc = o[n].exc)
               /\ (~r.raised /\ r.value = None)
                   => (n <= 0 \/ (~o[r.calls].raised /\ o[r.calls].value = None))
               /\ n <= 0 => (r.calls = 0 /\ ~r.raised /\ r.value = None)

C14_Witness ==
    /\ last.op = "execute_with_retry"
    /\ last.max_retries = 2
    /\ last.outcomes[1] = Raised("ConnectionError")
    /\ last.outcomes[2] = Raised("TimeoutError")
    /\ last.result.raised /\ last.result.exc = "TimeoutError"

\* the operations of `last` that are request handlers with a store branch
StoreHandlers == {"register", "login", "me", "get_products", "get_product", "get_all_users"}

\* C15: while the service runs in fallback mode (DB_CONNECTED is False) no
\* handler enters its store branch: no attempt through execute_with_retry is
\* made, products come from SAMPLE_PRODUCTS and users from FALLBACK_USERS.
C15_FallbackModeAvoidsStore ==
    (phase = "running" /\ ~DB_CONNECTED)
        => /\ \A p \in Procs : procs[p].pc = "idle" /\ procs[p].calls = 0
           /\ reader.pc = "idle"
           /\ last.op \in StoreHandlers => last.calls = 0
           /\ last.op = "get_products" => last.body = SAMPLE_PRODUCTS
           /\ (last.op = "get_product" /\ last.status = 200)
                  => \E k \in 1..Len(SAMPLE_PRODUCTS) : last.body = SAMPLE_PRODUCTS[k]
           /\ (last.op \in {"login", "me"} /\ last.status = 200)
                  => /\ last.user.email \in DOMAIN FALLBACK_USERS
                     /\ last.user.id = FALLBACK_USERS[last.user.email].id
           /\ (last.op = "register" /\ last.status = 200)
                  => last.stored = <<FALLBACK_USERS[last.user.email]>>
           /\ last.op = "get_all_users"
                  => /\ last.body.total_users = Cardinality(DOMAIN FALLBACK_USERS)
                     /\ \A k \in 1..Len(last.body.users) :
                            last.body.users[k].source = "Fallback"

C15_Witness ==
    /\ phase = "running" /\ ~DB_CONNECTED
    /\ MONGODB_AVAILABLE /\ storeUp /\ Len(products) > 0
    /\ last.op = "get_products"
    /\ last.calls = 0
    /\ last.body = SAMPLE_PRODUCTS

\* C16: startup_db_client completes without raising, and once it has completed
\* DB_CONNECTED is True exactly when the store helpers were imported and
\* connect_to_mongo returned True within the 10 seconds; a returned False, the
\* timeout, an exception and missing helpers all leave it False.
C16_ConnectedIffConnectReturnedTrue ==
    (boot.done /\ phase = "running")
        => /\ ~boot.raised
           /\ DB_CONNECTED <=> /\ boot.available
                               /\ boot.ret = "True"
                               /\ boot.elapsed <= STARTUP_TIMEOUT
           /\ (~boot.available \/ boot.ret \in {"False", "cancelled", "raised"})
                  => ~DB_CONNECTED

C16_Witness ==
    /\ boot.done /\ phase = "running"
    /\ boot.available
    /\ boot.ret = "cancelled"
    /\ Len(boot.tried) = 2
    /\ ~DB_CONNECTED

\* the clients created by the startup that boot describes
CreatedAtStartup == (boot.before + 1)..Len(clients)

\* C17: when connect_with_different_formats has returned, the strings it tried
\* are the first ones, in order, of: the original URL, then (only when the URL
\* has no '?') the URL with the SSL options, with the retry options and without
\* SSL; it tried none after the first whose ping succeeded; and either it
\* returned True with database the database of that format's client, or it
\* returned False with client None and every client it created closed.
C17_FirstFormatThatAnswers ==
    (boot.done /\ phase = "running" /\ boot.available /\ boot.tried # <<>>
     /\ boot.ret \in {"True", "False"})
        => LET url == MONGODB_URL
               all == IF Contains(url, "?")
                      THEN <<url>>
                      ELSE <<url, url \o SslOptions, url \o RetryOptions,
                             url \o NoSslOption>>
               n == Len(boot.tried)
           IN  /\ n <= Len(all)
               /\ boot.tried = SubSeq(all, 1, n)
               /\ \A k \in 1..(n - 1) : boot.met[k] # "ping_ok"
               /\ boot.ret = "True"
                      => /\ boot.met[n] = "ping_ok"
                         /\ boot.hit = n
                         /\ client # None
                         /\ client.id \in CreatedAtStartup
                         /\ clients[client.id] = [url |-> all[n], closed |-> FALSE]
                         /\ database = [name |-> DATABASE_NAME, client |-> client.id]
               /\ boot.ret = "False"
                      => /\ n = Len(all)
                         /\ client = None
                         /\ \A c \in CreatedAtStartup : clients[c].closed

C17_Witness ==
    /\ boot.done /\ phase = "running"
    /\ boot.ret = "True"
    /\ boot.hit = 3
    /\ boot.met = <<"ping_fails", "ping_hangs", "ping_ok">>
    /\ Len(clients) = 3
    /\ clients[1].closed /\ clients[2].closed /\ ~clients[3].closed

\* C18: between startup and shutdown no step changes DB_CONNECTED, whatever the
\* store does during the requests; after shutdown the flag is False.
C18_ModeFixedWhileRunning ==
    /\ [](phase = "stopped" => ~DB_CONNECTED)
    /\ [][(phase = "running" /\ phase' = "running") => DB_CONNECTED' = DB_CONNECTED]_vars

\* a request failed on the store in store mode, and one was served by fallback
\* data although the store had come back
C18_Witness ==
    /\ phase = "running"
    /\ last.op = "get_products"
    /\ flips > 0
    /\ \/ DB_CONNECTED /\ ~storeUp /\ last.calls = 2 /\ ~last.fetched
       \/ ~DB_CONNECTED /\ MONGODB_AVAILABLE /\ storeUp /\ last.calls = 0

\* C19: while the service runs with DB_CONNECTED True, the module-level database
\* is set (it is the database of the open module-level client), so
\* get_database() does not raise.
C19_ConnectedHasDatabase ==
    (phase = "running" /\ DB_CONNECTED)
        => /\ database # None
           /\ client # None
           /\ database.client = client.id
           /\ ~clients[client.id].closed

C19_Witness ==
    /\ phase = "running" /\ DB_CONNECTED
    /\ boot.hit = 2
    /\ last.op = "get_products"
    /\ last.fetched
    /\ database # None

\* C20: once startup has completed, every client that was opened is closed or
\* is the module-level client of a service whose DB_CONNECTED is True; after a
\* startup that the time limit cancelled the module-level client is None; after
\* shutdown no client is left open.  (Startups in which client.close() itself
\* raised are left aside: there the client could not be closed.)
C20_NoClientLeaked ==
    (phase \in {"running", "stopped"} /\ boot.ret # "raised")
        => /\ \A c \in 1..Len(clients) :
                  \/ clients[c].closed
                  \/ DB_CONNECTED /\ client = ClientRef(c)
           /\ (boot.available /\ boot.ret = "cancelled") => client = None
           /\ phase = "stopped" => \A c \in 1..Len(clients) : clients[c].closed

\* C21: a registration answered with an error status (400, 422 or 500) stored
\* no user record, in the store or in FALLBACK_USERS, also when an insert_one
\* took effect but raised and execute_with_retry ran the registration again.
C21_ErrorStoresNothing ==
    (last.op = "register" /\ last.status \in {400, 422, 500})
        => last.stored = <<>>

\* the successful registrations whose email and password the login request
\* carries, the email in any letter case and with surrounding whitespace
RegisteredWith(request) ==
    {r \in okRegs :
        /\ r.email = strip(lower(request.email))
        /\ \E u \in StoredUsers :
               /\ str(u._id) = r.id
               /\ u.email = r.email
               /\ "password" \in DOMAIN u
               /\ u.password = hash_password(request.password)}

\* C22: before shutdown, a login with the email and the password of an earlier
\* successful registration succeeds and returns the id that registration
\* returned, whether or not the store is reachable.
C22_LoginAfterRegister ==
    (phase = "running" /\ last.op = "login")
        => \A r \in RegisteredWith(last.request) :
               last.status = 200 /\ last.user.id = r.id

\* C23: every entry of FALLBACK_USERS is keyed by the email of its record, no
\* two entries have the same id, and the ids are user_1 .. user_n for a map of
\* n entries (each id is 'user_' and the size of the map at insertion plus one).
C23_FallbackKeyedById ==
    /\ \A e \in DOMAIN FALLBACK_USERS : FALLBACK_USERS[e].email = e
    /\ \A e1, e2 \in DOMAIN FALLBACK_USERS :
           FALLBACK_USERS[e1].id = FALLBACK_USERS[e2].id => e1 = e2
    /\ {FALLBACK_USERS[e].id : e \in DOMAIN FALLBACK_USERS}
           = {UserPrefix \o str_int(n) : n \in 1..Cardinality(DOMAIN FALLBACK_USERS)}

C23_Witness ==
    /\ last.op = "register" /\ last.status = 200
    /\ last.request.email = EmailAUpper
    /\ Cardinality(DOMAIN FALLBACK_USERS) = 2
    /\ EmailB \in DOMAIN FALLBACK_USERS
    /\ last.user.id = UserPrefix \o <<"2">>
    /\ FALLBACK_USERS[EmailA].id = last.user.id

\* the password hashes held in the store and in FALLBACK_USERS
StoredHashes ==
    UNION {{u[f] : f \in DOMAIN u \cap {"password", "hashed_password"}} : u \in StoredUsers}

\* the fields a user record of a response may have; all but source hold text
ResponseUserFields == {"id", "_id", "name", "email", "source"}

\* a user record of a response has no password field and no field whose value
\* is a stored password hash
NoHashIn(rec) ==
    /\ DOMAIN rec \subseteq ResponseUserFields
    /\ \A f \in DOMAIN rec \ {"source"} : rec[f] \notin StoredHashes

\* C24: no response of register_user, login_user, GET /auth/me, GET /api/profile
\* or GET /auth/users contains a stored password hash: neither its user records
\* nor the payload of its token have a password field or a field whose value is
\* the password hash of a user of the store or of FALLBACK_USERS.
C24_NoPasswordHashInResponse ==
    /\ (last.op \in {"register", "login", "me"} /\ last.user # None)
           => NoHashIn(last.user)
    /\ (last.op \in {"register", "login"} /\ last.token # None)
           => /\ DOMAIN last.token.payload = {"user_id", "email", "exp"}
              /\ last.token.payload.user_id \notin StoredHashes
              /\ last.token.payload.email \notin StoredHashes
    /\ (last.op = "get_all_users")
           => \A k \in 1..Len(last.body.users) : NoHashIn(last.body.users[k])

\* C25: in every state of a running service, each product that get_product
\* returns for a requested id is an element of the list get_products returns in
\* that state, and each element of that list is what get_product returns for
\* the element's id.
C25_ListingAndLookupAgree ==
    (phase = "running")
        => /\ \A product_id \in ProductIds :
                  LookupNow(product_id).status = 200
                      => \E k \in 1..Len(ListingNow) :
                             ListingNow[k] = LookupNow(product_id).body
           /\ \A k \in 1..Len(ListingNow) :
                  LookupNow(str_int(ListingNow[k].id)).body = ListingNow[k]
====
